---- MODULE Spec2Model ----
(***************************************************************************)
(* The Soniox n8n node: Soniox.execute over a batch of input items, with   *)
(* pollForCompletion, deleteResources and the request wrappers it calls.   *)
(* Every remote request is two steps: it is issued (inFlight names it) and *)
(* it returns or fails.  Numbers of seconds are held in thousandths, so    *)
(* that Math.max(1, sec) * 1000 is a number of milliseconds and fractional *)
(* parameters can be written.                                              *)
(***************************************************************************)
EXTENDS Integers, Sequences, FiniteSets, TLC

\* ------------------------------------------------------------- bounds
MaxItems == 2
MaxWaitSec == 2
MaxPollSec == 2
MaxReqSec == 1
MaxHints == 3

\* ------------------------------------------------- program constants
MsPerSec == 1000
MinSec == 1

SONIOX_CREDENTIALS == "sonioxApi"
STATUS_COMPLETED == "completed"
STATUS_ERROR == "error"

\* ------------------------------------------------------ JS values
Undefined == "<undefined>"

\* JavaScript truthiness of a string-or-undefined value
Truthy(v) == v \notin {Undefined, ""}

\* o.k, undefined when the object has no such key
Get(o, k) == IF k \in DOMAIN o THEN o[k] ELSE Undefined

Last(s) == s[Len(s)]

\* String.prototype.trim on the strings the model enters
Trim(s) ==
    CASE s = " "    -> ""
      [] s = " en " -> "en"
      [] OTHER      -> s

isNonEmptyString(value) == value # Undefined /\ Trim(value) # ""

REDACTED == "[REDACTED]"

\* a redaction that leaves an empty value as it is
redactWhenSet(data) ==
    IF ~Truthy(Get(data, "webhook_auth_header_value"))
    THEN data
    ELSE [k \in DOMAIN data |->
            IF k = "webhook_auth_header_value" THEN REDACTED ELSE data[k]]

redactWebhookAuthHeaderValue(data) ==
    IF "webhook_auth_header_value" \notin DOMAIN data
    THEN data
    ELSE [k \in DOMAIN data |->
            IF k = "webhook_auth_header_value" THEN REDACTED ELSE data[k]]

\* ------------------------------------------------------ errors
NoError == [name |-> "none", message |-> <<>>]

NodeOperationError(message) == [name |-> "NodeOperationError", message |-> message]

\* what httpRequestWithAuthentication throws: not a NodeOperationError
HttpError(failure) == [name |-> "HttpError", message |-> <<Get(failure, "message")>>]

\* what sleepWithAbort rejects with when the execution is cancelled
ExecutionCancelledError == [name |-> "ExecutionCancelledError", message |-> <<"cancelled">>]

Contains(message, part) == \E i \in DOMAIN message : message[i] = part

\* the failures of a remote request the model lets the transport raise
HttpFailures ==
    { [message |-> "socket hang up"],
      [httpCode |-> "500"] }

\* an extraction that prefers the top-level message to everything else
extractErrorDetailsMessageFirst(error) ==
    LET cause    == IF "cause" \in DOMAIN error THEN error.cause ELSE [none |-> ""]
        causeErr == IF "error" \in DOMAIN cause THEN cause.error ELSE [none |-> ""]
        response == IF "response" \in DOMAIN error THEN error.response ELSE [none |-> ""]
        rbody    == IF "body" \in DOMAIN response THEN response.body ELSE [none |-> ""]
        statusCode == IF Truthy(Get(error, "httpCode"))
                      THEN error.httpCode ELSE Get(response, "statusCode")
        detail ==
            IF Truthy(Get(error, "message")) THEN error.message
            ELSE IF Truthy(Get(causeErr, "detail")) THEN causeErr.detail
            ELSE IF Truthy(Get(causeErr, "message")) THEN causeErr.message
            ELSE IF Truthy(Get(rbody, "detail")) THEN rbody.detail
            ELSE IF Truthy(Get(rbody, "message")) THEN rbody.message
            ELSE IF Truthy(Get(rbody, "error")) THEN rbody.error
            ELSE IF Truthy(Get(error, "description")) THEN error.description
            ELSE ""
    IN  [message |-> detail, statusCode |-> statusCode]

extractErrorDetails(error) ==
    LET cause    == IF "cause" \in DOMAIN error THEN error.cause ELSE [none |-> ""]
        causeErr == IF "error" \in DOMAIN cause THEN cause.error ELSE [none |-> ""]
        response == IF "response" \in DOMAIN error THEN error.response ELSE [none |-> ""]
        rbody    == IF "body" \in DOMAIN response THEN response.body ELSE [none |-> ""]
        statusCode == IF Truthy(Get(error, "httpCode"))
                      THEN error.httpCode ELSE Get(response, "statusCode")
        detail ==
            IF Truthy(Get(causeErr, "detail")) THEN causeErr.detail
            ELSE IF Truthy(Get(causeErr, "message")) THEN causeErr.message
            ELSE IF Truthy(Get(rbody, "detail")) THEN rbody.detail
            ELSE IF Truthy(Get(rbody, "message")) THEN rbody.message
            ELSE IF Truthy(Get(rbody, "error")) THEN rbody.error
            ELSE IF Truthy(Get(error, "description")) THEN error.description
            ELSE IF Truthy(Get(error, "message")) THEN error.message
            ELSE ""
    IN  [message |-> detail, statusCode |-> statusCode]

\* the error sonioxApiRequest raises for a failed request
sonioxApiRequestError(failure) ==
    LET d == extractErrorDetails(failure)
    IN  IF Truthy(d.message)
        THEN NodeOperationError(<<"Soniox API error: ", d.message>>)
        ELSE IF Truthy(d.statusCode)
        THEN NodeOperationError(<<"Soniox API error (HTTP ", d.statusCode, ")">>)
        ELSE NodeOperationError(<<"Soniox API error">>)

\* ------------------------------------------------------ inputs
Operations == {"create", "getResults", "delete", "other"}
AudioSources == {"binary", "url", "fileId", "other"}
Strs == {"", " ", "en", "es"}
OutputModes == {"full", "textOnly"}

PollIntervalSecs == {-1000, 0, 500} \cup {k * MsPerSec : k \in 1..MaxPollSec}
MaxWaitSecs == {0} \cup {k * MsPerSec : k \in 1..MaxWaitSec}
ReqDurations == {k * MsPerSec : k \in 0..MaxReqSec}

ReqKinds == {"upload", "create", "status", "transcript", "deleteTranscription", "deleteFile"}

\* GET /v1/transcriptions/{id}
StatusResponses ==
    { [id |-> "tr-1"],
      [id |-> "tr-1", status |-> "processing"],
      [id |-> "tr-1", status |-> "processing", webhook_auth_header_value |-> "secret"],
      [id |-> "tr-1", status |-> STATUS_COMPLETED],
      [id |-> "tr-1", status |-> STATUS_ERROR],
      [id |-> "tr-1", status |-> STATUS_ERROR, error_message |-> "bad audio"] }

\* GET /v1/transcriptions/{id}/transcript
Transcripts ==
    { [text |-> "hello"],
      [text |-> "hello", webhook_auth_header_value |-> "secret"] }

NoResult == [none |-> ""]
NoResponse == [none |-> ""]

ItemJson(i) == [input |-> i]

VARIABLES
    continueOnFail, nItems,
    aborted, now, inFlight, sent, failed, sleeps,
    pc, itemIndex, returnData, thrown,
    operation, audioSource, model, audioUrl, fileId, body, transcriptionId,
    waitForCompletion, autoDelete, outputMode,
    pollIntervalSec, maxWaitSec, pollStart, timeoutAt, pollDelay,
    statusResponse, result, pollError,
    delTranscriptionId, delFileId, deleteResult, transcriptionDetails,
    fnCall, fnPc, createIn, createOut, hintsIn, hintsOut, failureIn, apiErrorOut, redactIn, redactOut, responseCode, testOut

\* a function of the node applied on its own to an argument: which one, whether
\* it has returned, and its argument and value.  Soniox.execute leaves these alone
fnVars == <<fnCall, fnPc, createIn, createOut, hintsIn, hintsOut, failureIn, apiErrorOut, redactIn, redactOut, responseCode, testOut>>

hostVars == <<continueOnFail, nItems, fnVars>>
envVars == <<aborted, now, inFlight, sent, failed, sleeps>>
ctlVars == <<pc, itemIndex, returnData, thrown>>
itemVars == <<operation, audioSource, model, audioUrl, fileId, body, transcriptionId,
              waitForCompletion, autoDelete, outputMode>>
pollVars == <<pollIntervalSec, maxWaitSec, pollStart, timeoutAt, pollDelay,
              statusResponse, result, pollError>>
delVars == <<delTranscriptionId, delFileId, deleteResult, transcriptionDetails>>
vars == <<hostVars, envVars, ctlVars, itemVars, pollVars, delVars>>

NoDeleteResult == [deleted |-> [none |-> ""], warnings |-> <<>>]

NoCall == [none |-> ""]

\* execute has been called and has read nothing yet
InitExecute ==
    /\ aborted = FALSE
    /\ now = 0
    /\ inFlight = "none"
    /\ sent = [k \in ReqKinds |-> 0]
    /\ failed = [k \in ReqKinds |-> 0]
    /\ sleeps = 0
    /\ pc = "loop"
    /\ itemIndex = 0
    /\ returnData = <<>>
    /\ thrown = NoError
    /\ operation = Undefined
    /\ audioSource = Undefined
    /\ model = Undefined
    /\ audioUrl = Undefined
    /\ fileId = Undefined
    /\ body = [none |-> ""]
    /\ transcriptionId = Undefined
    /\ waitForCompletion = FALSE
    /\ autoDelete = FALSE
    /\ outputMode = Undefined
    /\ pollIntervalSec = 0
    /\ maxWaitSec = 0
    /\ pollStart = 0
    /\ timeoutAt = 0
    /\ pollDelay = 0
    /\ statusResponse = NoResponse
    /\ result = NoResult
    /\ pollError = NoError
    /\ delTranscriptionId = Undefined
    /\ delFileId = Undefined
    /\ deleteResult = NoDeleteResult
    /\ transcriptionDetails = NoResponse

\* no function is applied on its own
FnIdle ==
    /\ fnCall = "none"
    /\ fnPc = "idle"
    /\ createIn = NoCall
    /\ createOut = NoCall
    /\ hintsIn = NoCall
    /\ hintsOut = <<>>
    /\ failureIn = NoCall
    /\ apiErrorOut = NoError
    /\ redactIn = NoCall
    /\ redactOut = NoCall
    /\ responseCode = 0
    /\ testOut = NoCall

Init ==
    /\ continueOnFail \in BOOLEAN
    /\ nItems \in 1..MaxItems
    /\ InitExecute
    /\ FnIdle

\* an entry paired with the first item, whichever item it belongs to
OutputPairedWithFirst(json, error, item) == [json |-> json, error |-> error, pairedItem |-> 0]

\* ------------------------------------------------------ execute: control
\* an entry of returnData
Output(json, error, item) == [json |-> json, error |-> error, pairedItem |-> item]

\* new NodeOperationError(node, error, {itemIndex}): the message is the cause's
Wrap(error) == [name |-> "NodeOperationError", message |-> error.message]

\* An entry that is no longer the last one: no later step reads what an entry
\* holds, so an older entry keeps its pairing and whether it carries an error
Settled(entry) ==
    [json |-> Undefined,
     error |-> IF entry.error.name = "none" THEN NoError
               ELSE [name |-> "settled", message |-> <<>>],
     pairedItem |-> entry.pairedItem]

\* returnData.push(entry)
Pushed(data, entry) == Append([i \in DOMAIN data |-> Settled(data[i])], entry)

\* a catch block that turns every failure into an output, whatever the host says
CatchAlwaysContinues(error) ==
    /\ returnData' = Pushed(returnData, Output(ItemJson(itemIndex), error, itemIndex))
    /\ itemIndex' = itemIndex + 1
    /\ pc' = "loop"
    /\ thrown' = thrown

\* the catch block of the item loop: the failure becomes the item's output when
\* the host continues on failure, and ends execute otherwise
Catch(error) ==
    IF continueOnFail
    THEN /\ returnData' = Pushed(returnData, Output(ItemJson(itemIndex), error, itemIndex))
         /\ itemIndex' = itemIndex + 1
         /\ pc' = "loop"
         /\ thrown' = thrown
    ELSE /\ thrown' = IF error.name = "NodeOperationError" THEN error ELSE Wrap(error)
         /\ pc' = "thrown"
         /\ UNCHANGED <<returnData, itemIndex>>

\* returnData.push(...) followed by the next iteration of the item loop
Push(json) ==
    /\ returnData' = Pushed(returnData, Output(json, NoError, itemIndex))
    /\ itemIndex' = itemIndex + 1
    /\ pc' = "loop"
    /\ thrown' = thrown

Goto(label) ==
    /\ pc' = label
    /\ UNCHANGED <<itemIndex, returnData, thrown>>

\* the request a position of the code issues
RequestAt(label) ==
    CASE label = "upload"            -> "upload"
      [] label = "create_call"       -> "create"
      [] label = "poll_status"       -> "status"
      [] label = "poll_transcript"   -> "transcript"
      [] label = "get_status"        -> "status"
      [] label = "get_transcript"    -> "transcript"
      [] label = "delete_lookup"     -> "status"
      [] label = "del_transcription" -> "deleteTranscription"
      [] label = "del_file"          -> "deleteFile"
      [] OTHER                       -> "none"

\* the function of the node that hands a request to
\* helpers.httpRequestWithAuthentication
IssuedThrough(request) ==
    CASE request = "upload"                                  -> "uploadFile"
      [] request \in {"create", "status", "transcript"}      -> "sonioxApiRequest"
      [] request \in {"deleteTranscription", "deleteFile"}   -> "tryDeleteResource"
      [] OTHER                                               -> "none"

\* a request that does not wait for the one in flight
IssueRequestOverlapping ==
    /\ RequestAt(pc) # "none"
    /\ inFlight' = RequestAt(pc)
    /\ sent' = [sent EXCEPT ![RequestAt(pc)] = @ + 1]
    /\ UNCHANGED <<hostVars, aborted, now, failed, sleeps, ctlVars, itemVars, pollVars, delVars>>

\* helpers.httpRequestWithAuthentication is called: the request is in flight
IssueRequest ==
    /\ inFlight = "none"
    /\ RequestAt(pc) # "none"
    /\ inFlight' = RequestAt(pc)
    /\ sent' = [sent EXCEPT ![RequestAt(pc)] = @ + 1]
    /\ UNCHANGED <<hostVars, aborted, now, failed, sleeps, ctlVars, itemVars, pollVars, delVars>>

\* the request in flight returned
Returned(label) ==
    /\ pc = label
    /\ inFlight = RequestAt(label)
    /\ inFlight' = "none"

Fails == failed' = [failed EXCEPT ![inFlight] = @ + 1]

\* the execution is cancelled from outside: the abort signal is set.  The node
\* reads the signal only in the wait of pollForCompletion, so a cancellation at
\* any other time is observed as one at the next wait
Abort ==
    /\ ~aborted
    /\ pc \in {"poll_status", "poll_examine", "poll_sleep"}
    /\ aborted' = TRUE
    /\ UNCHANGED <<hostVars, now, inFlight, sent, failed, sleeps, ctlVars, itemVars,
                   pollVars, delVars>>

\* the item loop is over: return [returnData]
Return ==
    /\ pc = "loop"
    /\ itemIndex >= nItems
    /\ pc' = "done"
    /\ UNCHANGED <<hostVars, envVars, itemIndex, returnData, thrown, itemVars, pollVars,
                   delVars>>

\* one iteration of the item loop starts: resource and operation are read
BeginItem ==
    /\ pc = "loop"
    /\ itemIndex < nItems
    /\ \E resource \in {"transcription", "other"}, op \in Operations :
        /\ operation' = op
        /\ IF resource # "transcription"
           THEN Catch(NodeOperationError(<<"Unsupported resource: ", resource>>))
           ELSE IF op \in {"create", "getResults", "delete"}
           THEN /\ pc' = op
                /\ returnData' = [i \in DOMAIN returnData |-> Settled(returnData[i])]
                /\ UNCHANGED <<itemIndex, thrown>>
           ELSE Catch(NodeOperationError(<<"Unsupported operation: ", op>>))
    /\ audioSource' = Undefined
    /\ model' = Undefined
    /\ audioUrl' = Undefined
    /\ fileId' = Undefined
    /\ body' = [none |-> ""]
    /\ transcriptionId' = Undefined
    /\ waitForCompletion' = FALSE
    /\ autoDelete' = FALSE
    /\ outputMode' = Undefined
    /\ pollIntervalSec' = 0
    /\ maxWaitSec' = 0
    /\ pollStart' = 0
    /\ timeoutAt' = 0
    /\ pollDelay' = 0
    /\ statusResponse' = NoResponse
    /\ result' = NoResult
    /\ pollError' = NoError
    /\ delTranscriptionId' = Undefined
    /\ delFileId' = Undefined
    /\ deleteResult' = NoDeleteResult
    /\ transcriptionDetails' = NoResponse
    /\ sent' = [k \in ReqKinds |-> 0]
    /\ failed' = [k \in ReqKinds |-> 0]
    /\ sleeps' = 0
    /\ now' = 0
    /\ UNCHANGED <<hostVars, aborted, inFlight>>

\* ------------------------------------------------------ execute: create
EmptyObject == <<>>

\* the values the contextJson parameter takes, by name: a string or an object
ContextJsonNames ==
    {"empty", "objectText", "arrayText", "numberText", "badText", "object", "emptyObject"}

ContextJson(name) ==
    CASE name = "empty"      -> [type |-> "string", value |-> ""]
      [] name = "objectText" -> [type |-> "string", value |-> "{\"general\":\"x\"}"]
      [] name = "arrayText"  -> [type |-> "string", value |-> "[1,2,3]"]
      [] name = "numberText" -> [type |-> "string", value |-> "42"]
      [] name = "badText"    -> [type |-> "string", value |-> "{bad"]
      [] name = "object"     -> [type |-> "object", value |-> [general |-> "x"]]
      [] OTHER               -> [type |-> "object", value |-> EmptyObject]

\* JSON.parse on the texts the model enters
JsonParse(text) ==
    CASE text = "{\"general\":\"x\"}" -> [type |-> "object", value |-> [general |-> "x"]]
      [] text = "{}"                  -> [type |-> "object", value |-> EmptyObject]
      [] text = "[1,2,3]"             -> [type |-> "array", value |-> <<1, 2, 3>>]
      [] text = "42"                  -> [type |-> "number", value |-> 42]
      [] OTHER                        -> [type |-> "SyntaxError", value |-> "Unexpected token"]

\* a context value, no context, or the error thrown while parsing
ContextIs(value) == [threw |-> FALSE, defined |-> TRUE, value |-> value]
NoContext == [threw |-> FALSE, defined |-> FALSE, value |-> Undefined]
ContextThrew(message) == [threw |-> TRUE, defined |-> FALSE, value |-> message]

\* a parser that takes whatever JSON.parse returns
parseStructuredContextAnyJson(value) ==
    IF value.type = "object"
    THEN IF DOMAIN value.value # {} THEN ContextIs(value.value) ELSE NoContext
    ELSE IF value.type = "string"
    THEN IF ~Truthy(value.value) \/ Trim(value.value) = ""
         THEN NoContext
         ELSE LET parsed == JsonParse(Trim(value.value))
              IN  IF parsed.type = "SyntaxError"
                  THEN ContextThrew(parsed.value)
                  ELSE ContextIs(parsed.value)
    ELSE NoContext

\* parseStructuredContext
parseStructuredContext(value) ==
    IF value.type = "object"
    THEN IF DOMAIN value.value # {} THEN ContextIs(value.value) ELSE NoContext
    ELSE IF value.type = "string"
    THEN IF ~Truthy(value.value) \/ Trim(value.value) = ""
         THEN NoContext
         ELSE LET parsed == JsonParse(Trim(value.value))
              IN  IF parsed.type = "SyntaxError"
                  THEN ContextThrew(parsed.value)
                  ELSE IF parsed.type # "object"
                  THEN ContextThrew("Context must be a JSON object, not an array or primitive")
                  ELSE IF DOMAIN parsed.value # {}
                  THEN ContextIs(parsed.value) ELSE NoContext
    ELSE NoContext

\* the check after the audio source was read: exactly one of the two is set
NotExactlyOneSource(url, file) ==
    (Truthy(url) /\ Truthy(file)) \/ (~Truthy(url) /\ ~Truthy(file))

\* create: audioSource and model are read; url and file id are validated
CreateSource ==
    /\ pc = "create"
    /\ \E src \in AudioSources, m \in {"", " ", "stt-async-v3"}, raw \in {"", " ", "src-1"} :
        /\ audioSource' = src
        /\ model' = m
        /\ IF ~isNonEmptyString(m)
           THEN /\ Catch(NodeOperationError(<<"Model is required">>))
                /\ UNCHANGED <<audioUrl, fileId>>
           ELSE IF src = "binary"
           THEN /\ Goto("upload")
                /\ UNCHANGED <<audioUrl, fileId>>
           ELSE IF src = "url"
           THEN IF ~isNonEmptyString(raw)
                THEN /\ Catch(NodeOperationError(<<"Audio URL is required">>))
                     /\ UNCHANGED <<audioUrl, fileId>>
                ELSE /\ audioUrl' = raw
                     /\ fileId' = fileId
                     /\ IF NotExactlyOneSource(raw, fileId)
                        THEN Catch(NodeOperationError(<<"Provide exactly one audio source (audio URL or file ID)">>))
                        ELSE Goto("create_body")
           ELSE IF src = "fileId"
           THEN IF ~isNonEmptyString(raw)
                THEN /\ Catch(NodeOperationError(<<"File ID is required">>))
                     /\ UNCHANGED <<audioUrl, fileId>>
                ELSE /\ fileId' = raw
                     /\ audioUrl' = audioUrl
                     /\ IF NotExactlyOneSource(audioUrl, raw)
                        THEN Catch(NodeOperationError(<<"Provide exactly one audio source (audio URL or file ID)">>))
                        ELSE Goto("create_body")
           ELSE /\ Catch(NodeOperationError(<<"Unsupported audio source: ", src>>))
                /\ UNCHANGED <<audioUrl, fileId>>
    /\ UNCHANGED <<hostVars, envVars, operation, body, transcriptionId, waitForCompletion,
                   autoDelete, outputMode, pollVars, delVars>>

\* POST /v1/files
UploadResponses ==
    { [id |-> "file-1"],
      [filename |-> "audio"] }

\* uploadFile: the upload returned or failed; it is not made through sonioxApiRequest
UploadReturns ==
    /\ Returned("upload")
    /\ \/ \E failure \in HttpFailures :
            /\ Fails
            /\ Catch(HttpError(failure))
            /\ UNCHANGED fileId
       \/ \E uploadResponse \in UploadResponses :
            /\ failed' = failed
            /\ IF ~Truthy(Get(uploadResponse, "id"))
               THEN /\ Catch(NodeOperationError(<<"File upload did not return a file ID">>))
                    /\ UNCHANGED fileId
               ELSE /\ fileId' = uploadResponse.id
                    /\ IF NotExactlyOneSource(audioUrl, uploadResponse.id)
                       THEN Catch(NodeOperationError(<<"Provide exactly one audio source (audio URL or file ID)">>))
                       ELSE Goto("create_body")
    /\ UNCHANGED <<hostVars, aborted, now, sent, sleeps, operation, audioSource, model,
                   audioUrl, body, transcriptionId, waitForCompletion, autoDelete,
                   outputMode, pollVars, delVars>>

\* a translation field built without looking at the languages
TranslationUnchecked(translationType, targetLanguage, languageA, languageB) ==
    IF translationType = "one_way"
    THEN [threw |-> FALSE,
          value |-> [translation |-> [type |-> "one_way",
                                      target_language |-> targetLanguage]]]
    ELSE IF translationType = "two_way"
    THEN [threw |-> FALSE,
          value |-> [translation |-> [type |-> "two_way", language_a |-> languageA,
                                      language_b |-> languageB]]]
    ELSE [threw |-> FALSE, value |-> EmptyObject]

\* the translation field of the body, or the validation error
Translation(translationType, targetLanguage, languageA, languageB) ==
    IF translationType = "one_way"
    THEN IF ~isNonEmptyString(targetLanguage)
         THEN [threw |-> TRUE, value |-> "Target language is required for one-way translation"]
         ELSE [threw |-> FALSE,
               value |-> [translation |-> [type |-> "one_way",
                                           target_language |-> targetLanguage]]]
    ELSE IF translationType = "two_way"
    THEN IF ~isNonEmptyString(languageA) \/ ~isNonEmptyString(languageB)
         THEN [threw |-> TRUE,
               value |-> "Language A and Language B are required for two-way translation"]
         ELSE [threw |-> FALSE,
               value |-> [translation |-> [type |-> "two_way", language_a |-> languageA,
                                           language_b |-> languageB]]]
    ELSE [threw |-> FALSE, value |-> EmptyObject]

\* a body in which the file id takes the place of the audio URL as well
BodyFileAsUrl(m, url, file, context, webhookAuthHeaderValue, translation) ==
    [model |-> m]
    @@ (IF Truthy(url) THEN [audio_url |-> url] ELSE EmptyObject)
    @@ (IF Truthy(file) THEN [file_id |-> file, audio_url |-> file] ELSE EmptyObject)
    @@ (IF context.defined THEN [context |-> context.value] ELSE EmptyObject)
    @@ (IF isNonEmptyString(webhookAuthHeaderValue)
        THEN [webhook_auth_header_value |-> webhookAuthHeaderValue] ELSE EmptyObject)
    @@ translation

\* the request body assembled from the validated parameters
Body(m, url, file, context, webhookAuthHeaderValue, translation) ==
    [model |-> m]
    @@ (IF Truthy(url) THEN [audio_url |-> url] ELSE EmptyObject)
    @@ (IF Truthy(file) THEN [file_id |-> file] ELSE EmptyObject)
    @@ (IF context.defined THEN [context |-> context.value] ELSE EmptyObject)
    @@ (IF isNonEmptyString(webhookAuthHeaderValue)
        THEN [webhook_auth_header_value |-> webhookAuthHeaderValue] ELSE EmptyObject)
    @@ translation

\* the parameters create reads once the audio source is settled
CreateParams ==
    [contextMode : {"text", "structured"}, contextText : {"", "names"},
     contextJson : ContextJsonNames, webhookAuthHeaderValue : {"", "secret"},
     translationType : {"none", "one_way", "two_way"},
     targetLanguage : Strs, languageA : Strs, languageB : Strs]

\* the context of the request: a text, a parsed object, none, or the parse error
Context(contextMode, contextText, contextJson) ==
    IF contextMode = "structured"
    THEN parseStructuredContext(ContextJson(contextJson))
    ELSE IF isNonEmptyString(contextText)
    THEN ContextIs(contextText) ELSE NoContext

\* what create makes of its parameters: the body of the create call, or the
\* error thrown while validating them
CreateRequest(m, url, file, p) ==
    LET parsed == Context(p.contextMode, p.contextText, p.contextJson)
        translation == Translation(p.translationType, p.targetLanguage,
                                   p.languageA, p.languageB)
    IN  IF parsed.threw
        THEN [threw |-> TRUE, body |-> [none |-> ""],
              error |-> NodeOperationError(<<"Invalid context: ", parsed.value>>)]
        ELSE IF translation.threw
        THEN [threw |-> TRUE, body |-> [none |-> ""],
              error |-> NodeOperationError(<<translation.value>>)]
        ELSE [threw |-> FALSE, error |-> NoError,
              body |-> Body(m, url, file, parsed, p.webhookAuthHeaderValue,
                            translation.value)]

\* create: the remaining parameters are read and validated, the body is built
CreateBody ==
    /\ pc = "create_body"
    /\ \E p \in CreateParams :
        LET request == CreateRequest(model, audioUrl, fileId, p)
        IN  IF request.threw
            THEN /\ Catch(request.error)
                 /\ body' = body
            ELSE /\ body' = request.body
                 /\ Goto("create_call")
    /\ UNCHANGED <<hostVars, envVars, operation, audioSource, model, audioUrl, fileId,
                   transcriptionId, waitForCompletion, autoDelete, outputMode, pollVars,
                   delVars>>

\* POST /v1/transcriptions
CreateResponses ==
    { [id |-> "tr-1", status |-> "queued"],
      [id |-> "tr-1", status |-> "queued", webhook_auth_header_value |-> "secret"],
      [status |-> "queued"] }

\* a create that polls whatever the response holds
HasIdUnchecked(response) == TRUE

\* const transcriptionId = response.id; if (!transcriptionId) throw ...
HasId(response) == Truthy(Get(response, "id"))

\* create: the create call returned or failed; waitForCompletion and, when
\* waiting, the poll parameters are read
CreateReturns ==
    /\ Returned("create_call")
    /\ body' = [none |-> ""]
    /\ \/ \E failure \in HttpFailures :
            /\ Fails
            /\ Catch(sonioxApiRequestError(failure))
            /\ UNCHANGED <<transcriptionId, waitForCompletion, autoDelete, outputMode,
                           pollIntervalSec, maxWaitSec>>
       \/ \E response \in CreateResponses, wait \in BOOLEAN :
            /\ failed' = failed
            /\ waitForCompletion' = wait
            /\ IF ~wait
               THEN /\ Push(redactWebhookAuthHeaderValue(response))
                    /\ UNCHANGED <<transcriptionId, autoDelete, outputMode,
                                   pollIntervalSec, maxWaitSec>>
               ELSE IF ~HasId(response)
               THEN /\ Catch(NodeOperationError(<<"Transcription creation did not return an ID">>))
                    /\ UNCHANGED <<transcriptionId, autoDelete, outputMode,
                                   pollIntervalSec, maxWaitSec>>
               ELSE /\ transcriptionId' = Get(response, "id")
                    /\ pollIntervalSec' \in PollIntervalSecs
                    /\ maxWaitSec' \in MaxWaitSecs
                    /\ UNCHANGED <<autoDelete, outputMode>>
                    /\ Goto("poll_begin")
    /\ UNCHANGED <<hostVars, aborted, now, sent, sleeps, operation, audioSource, model,
                   audioUrl, fileId, pollStart, timeoutAt, pollDelay, statusResponse,
                   result, pollError, delVars>>

\* ------------------------------------------------------ pollForCompletion
\* a clamp that takes the seconds as given
ClampMsAsGiven(sec) == sec

\* Math.max(1, sec) * 1000, sec held in thousandths of a second
ClampMs(sec) == IF sec > MinSec * MsPerSec THEN sec ELSE MinSec * MsPerSec

\* a deadline that takes max-wait as given
TimeoutAtNoClamp(start, maxWait) == start + maxWait

\* const timeoutAt = Date.now() + Math.max(1, maxWaitSec) * 1000
TimeoutAt(start, maxWait) == start + ClampMs(maxWait)

\* a delay that takes the poll interval as given
PollDelayNoClamp(pollInterval) == pollInterval

\* const pollDelay = Math.max(1, pollIntervalSec) * 1000
PollDelay(pollInterval) == ClampMs(pollInterval)

\* Date.now() > timeoutAt
DeadlinePassed(t, deadline) == t > deadline

\* a failure message that leaves the server's error_message out
JobFailedErrorNoDetail(response) ==
    NodeOperationError(<<"Transcription failed with status \"", STATUS_ERROR, "\"">>)

\* the error thrown for a job in status "error"
JobFailedError(response) ==
    NodeOperationError(
        <<"Transcription failed with status \"", STATUS_ERROR, "\"">>
        \o (IF Truthy(Get(response, "error_message"))
            THEN <<": ", response.error_message>> ELSE <<>>))

\* a timeout message that leaves the last status out
PollTimeoutErrorNoStatus(maxWait, status) ==
    NodeOperationError(<<"Polling timed out after ", ToString(maxWait), " seconds">>)

\* the error thrown when the deadline passed with the job not terminal
PollTimeoutError(maxWait, status) ==
    NodeOperationError(
        <<"Polling timed out after ", ToString(maxWait), " seconds">>
        \o (IF Truthy(status) THEN <<" (last status: ", status, ")">> ELSE <<>>))

IsJobFailed(error) ==
    error.name = "NodeOperationError" /\ Len(error.message) > 0
    /\ error.message[1] = "Transcription failed with status \""

IsPollTimeout(error) ==
    error.name = "NodeOperationError" /\ Len(error.message) > 0
    /\ error.message[1] = "Polling timed out after "

\* a poller that looks at the clock before it looks for a failed job
PollStateErrorAfterDeadline(status, t, deadline) ==
    IF status = STATUS_COMPLETED THEN "completed"
    ELSE IF DeadlinePassed(t, deadline) THEN "timed_out"
    ELSE IF status = STATUS_ERROR THEN "error"
    ELSE "polling"

\* a poller that looks at the clock before it looks at the status
PollStateDeadlineFirst(status, t, deadline) ==
    IF DeadlinePassed(t, deadline) THEN "timed_out"
    ELSE IF status = STATUS_COMPLETED THEN "completed"
    ELSE IF status = STATUS_ERROR THEN "error"
    ELSE "polling"

\* the state the poller is in after a status check: the status is examined
\* before the clock
PollState(status, t, deadline) ==
    IF status = STATUS_COMPLETED THEN "completed"
    ELSE IF status = STATUS_ERROR THEN "error"
    ELSE IF DeadlinePassed(t, deadline) THEN "timed_out"
    ELSE "polling"

\* pollForCompletion is entered: the deadline and the delay are computed
PollBegin ==
    /\ pc = "poll_begin"
    /\ pollStart' = now
    /\ timeoutAt' = TimeoutAt(now, maxWaitSec)
    /\ pollDelay' = PollDelay(pollIntervalSec)
    /\ statusResponse' = NoResponse
    /\ Goto("poll_status")
    /\ UNCHANGED <<hostVars, envVars, itemVars, pollIntervalSec, maxWaitSec, result,
                   pollError, delVars>>

\* the status request of the loop returned or failed
StatusReturns ==
    /\ Returned("poll_status")
    /\ \/ \E failure \in HttpFailures :
            /\ Fails
            /\ pollError' = sonioxApiRequestError(failure)
            /\ Goto("poll_return")
            /\ UNCHANGED <<statusResponse, now>>
       \/ \E response \in StatusResponses, took \in ReqDurations :
            /\ failed' = failed
            /\ statusResponse' = response
            /\ now' = now + took
            /\ pollError' = pollError
            /\ Goto("poll_examine")
    /\ UNCHANGED <<hostVars, aborted, sent, sleeps, itemVars, pollIntervalSec, maxWaitSec,
                   pollStart, timeoutAt, pollDelay, result, delVars>>

\* the loop body after the status request: completed, error, deadline, or sleep
PollExamine ==
    /\ pc = "poll_examine"
    /\ LET status == Get(statusResponse, "status")
           state  == PollState(status, now, timeoutAt)
       IN  IF state = "completed"
           THEN /\ Goto("poll_transcript")
                /\ UNCHANGED <<pollError, sleeps>>
           ELSE IF state = "error"
           THEN /\ pollError' = JobFailedError(statusResponse)
                /\ Goto("poll_return")
                /\ UNCHANGED sleeps
           ELSE IF state = "timed_out"
           THEN /\ pollError' = PollTimeoutError(maxWaitSec, status)
                /\ Goto("poll_return")
                /\ UNCHANGED sleeps
           ELSE /\ sleeps' = sleeps + 1
                /\ Goto("poll_sleep")
                /\ UNCHANGED pollError
    /\ UNCHANGED <<hostVars, aborted, now, inFlight, sent, failed, itemVars,
                   pollIntervalSec, maxWaitSec, pollStart, timeoutAt, pollDelay,
                   statusResponse, result, delVars>>

\* sleepWithAbort resolves after pollDelay
SleepElapses ==
    /\ pc = "poll_sleep"
    /\ ~aborted
    /\ now' = now + pollDelay
    /\ Goto("poll_status")
    /\ UNCHANGED <<hostVars, aborted, inFlight, sent, failed, sleeps, itemVars, pollVars,
                   delVars>>

\* sleepWithAbort rejects: the abort signal is set before or during the wait
SleepAborted ==
    /\ pc = "poll_sleep"
    /\ aborted
    /\ pollError' = ExecutionCancelledError
    /\ Goto("poll_return")
    /\ UNCHANGED <<hostVars, envVars, itemVars, pollIntervalSec, maxWaitSec, pollStart,
                   timeoutAt, pollDelay, statusResponse, result, delVars>>

\* the transcript request after the loop returned or failed
TranscriptReturns ==
    /\ Returned("poll_transcript")
    /\ \/ \E failure \in HttpFailures :
            /\ Fails
            /\ pollError' = sonioxApiRequestError(failure)
            /\ result' = result
       \/ \E transcript \in Transcripts :
            /\ failed' = failed
            /\ result' = [status |-> statusResponse, transcript |-> transcript]
            /\ pollError' = pollError
    /\ Goto("poll_return")
    /\ UNCHANGED <<hostVars, aborted, now, sent, sleeps, itemVars, pollIntervalSec,
                   maxWaitSec, pollStart, timeoutAt, pollDelay, statusResponse, delVars>>

\* pollForCompletion's frame is left: its locals are gone, and the origin of the
\* clock, which only pollForCompletion reads, is moved to the present
LeavePoll ==
    /\ pollIntervalSec' = 0
    /\ maxWaitSec' = 0
    /\ pollStart' = 0
    /\ timeoutAt' = 0
    /\ pollDelay' = 0
    /\ statusResponse' = NoResponse
    /\ now' = 0

\* an output that echoes the transcript as the service sent it
ShapeOutputRaw(mode, transcript) ==
    IF mode = "textOnly"
    THEN [text |-> IF "text" \in DOMAIN transcript THEN transcript.text ELSE ""]
    ELSE transcript

\* ------------------------------------------------------ output shaping
\* outputMode === 'textOnly' ? { text: transcript?.text ?? '' } : redact(transcript)
ShapeOutput(mode, transcript) ==
    IF mode = "textOnly"
    THEN [text |-> IF "text" \in DOMAIN transcript THEN transcript.text ELSE ""]
    ELSE redactWebhookAuthHeaderValue(transcript)

\* an output that always carries the warnings key
WithDeleteWarningsAlways(output, deleteWarnings) ==
    ("_deleteWarnings" :> deleteWarnings) @@ output

\* jsonOutput._deleteWarnings = deleteWarnings, when there are any
WithDeleteWarnings(output, deleteWarnings) ==
    IF Len(deleteWarnings) > 0
    THEN ("_deleteWarnings" :> deleteWarnings) @@ output
    ELSE output

\* ------------------------------------------------------ deleteResources
\* tryDeleteResource's warning for a failed DELETE
DeleteWarning(description, failure) ==
    LET message == extractErrorDetails(failure).message
    IN  <<"Failed to delete ", description, ": ",
          IF Truthy(message) THEN message ELSE "Unknown error">>

\* a step that sends the DELETE of the transcription a second time
AfterTranscriptionDeleteRetry ==
    IF sent.deleteTranscription = 1 THEN "del_transcription"
    ELSE IF Truthy(delFileId) THEN "del_file" ELSE "del_return"

\* a deleteResources that returns once the transcription was handled
AfterTranscriptionDeleteSkipsFile == "del_return"

\* the step of deleteResources after the transcription was handled
AfterTranscriptionDelete == IF Truthy(delFileId) THEN "del_file" ELSE "del_return"

\* deleteResources is entered with (delTranscriptionId, delFileId)
DeleteResourcesBegin ==
    /\ pc = "del_begin"
    /\ deleteResult' = [deleted |-> EmptyObject, warnings |-> <<>>]
    /\ IF Truthy(delTranscriptionId)
       THEN Goto("del_transcription")
       ELSE Goto(AfterTranscriptionDelete)
    /\ UNCHANGED <<hostVars, envVars, itemVars, pollVars, delTranscriptionId, delFileId,
                   transcriptionDetails>>

\* DELETE /v1/transcriptions/{id} returned or failed
DeleteTranscriptionReturns ==
    /\ Returned("del_transcription")
    /\ \/ \E failure \in HttpFailures :
            /\ Fails
            /\ deleteResult' =
                  [deleteResult EXCEPT !.warnings =
                      Append(@, DeleteWarning("transcription " \o delTranscriptionId, failure))]
       \/ /\ failed' = failed
          /\ deleteResult' =
                [deleteResult EXCEPT !.deleted =
                    [transcription |-> delTranscriptionId] @@ @]
    /\ Goto(AfterTranscriptionDelete)
    /\ UNCHANGED <<hostVars, aborted, now, sent, sleeps, itemVars, pollVars,
                   delTranscriptionId, delFileId, transcriptionDetails>>

\* DELETE /v1/files/{id} returned or failed
DeleteFileReturns ==
    /\ Returned("del_file")
    /\ \/ \E failure \in HttpFailures :
            /\ Fails
            /\ deleteResult' =
                  [deleteResult EXCEPT !.warnings =
                      Append(@, DeleteWarning("file " \o delFileId, failure))]
       \/ /\ failed' = failed
          /\ deleteResult' =
                [deleteResult EXCEPT !.deleted = [file |-> delFileId] @@ @]
    /\ Goto("del_return")
    /\ UNCHANGED <<hostVars, aborted, now, sent, sleeps, itemVars, pollVars,
                   delTranscriptionId, delFileId, transcriptionDetails>>

\* ------------------------------------------------------ execute: create, after the poll
\* const fileIdToDelete = audioSource === 'binary' ? fileId : undefined
FileIdToDelete(source, file) == IF source = "binary" THEN file ELSE Undefined

\* a cleanup that only runs when the poll succeeded
CleanupOnSuccessOnly(auto, error) == auto /\ error = NoError

\* whether the cleanup runs once the poll resolved
CleanupEnabled(auto, error) == auto

\* a cleanup that follows every poll, getResults' included
CleansUpAfterAnyPoll(op) == TRUE

\* the try/catch around the poll and the cleanup after it are create's alone
CleansUpAfterPoll(op) == op = "create"

\* a cleanup failure that masks the poll's error
RethrownCleanupFirst(error, deleteWarnings) ==
    IF Len(deleteWarnings) > 0 THEN NodeOperationError(deleteWarnings[1]) ELSE error

\* the error create throws once the cleanup is over: the poll's
Rethrown(error, deleteWarnings) == error

\* pollForCompletion returned or threw into create's try/catch; the cleanup starts
CreateAfterPoll ==
    /\ pc = "poll_return"
    /\ CleansUpAfterPoll(operation)
    /\ \E auto \in BOOLEAN :
        /\ autoDelete' = auto
        /\ IF CleanupEnabled(auto, pollError)
           THEN /\ delTranscriptionId' = transcriptionId
                /\ delFileId' = FileIdToDelete(audioSource, fileId)
                /\ Goto("del_begin")
           ELSE /\ UNCHANGED <<delTranscriptionId, delFileId>>
                /\ Goto("create_finish")
    /\ LeavePoll
    /\ UNCHANGED <<hostVars, aborted, inFlight, sent, failed, sleeps, operation, audioSource,
                   model, audioUrl, fileId, body, transcriptionId, waitForCompletion,
                   outputMode, result, pollError, deleteResult, transcriptionDetails>>

\* deleteResources returned to create
CreateCleanupReturns ==
    /\ pc = "del_return"
    /\ operation # "delete"
    /\ Goto("create_finish")
    /\ UNCHANGED <<hostVars, envVars, itemVars, pollVars, delVars>>

\* the item's output on the create-with-wait path
CreateOutput(mode, transcript, deleteWarnings) ==
    WithDeleteWarnings(ShapeOutput(mode, transcript), deleteWarnings)

\* create: the poll error is re-thrown, or the output is pushed
CreateFinish ==
    /\ pc = "create_finish"
    /\ IF pollError # NoError
       THEN /\ Catch(Rethrown(pollError, deleteResult.warnings))
            /\ UNCHANGED outputMode
       ELSE \E mode \in OutputModes :
            /\ outputMode' = mode
            /\ Push(CreateOutput(mode, result.transcript, deleteResult.warnings))
    /\ UNCHANGED <<hostVars, envVars, operation, audioSource, model, audioUrl, fileId, body,
                   transcriptionId, waitForCompletion, autoDelete, pollVars, delVars>>

\* ------------------------------------------------------ execute: getResults
IdStrs == {"", " ", "tr-1"}

\* getResults: the parameters are read
GetResultsParams ==
    /\ pc = "getResults"
    /\ \E id \in IdStrs, wait \in BOOLEAN :
        IF ~isNonEmptyString(id)
        THEN /\ Catch(NodeOperationError(<<"Transcription ID is required">>))
             /\ UNCHANGED <<transcriptionId, waitForCompletion, outputMode,
                            pollIntervalSec, maxWaitSec>>
        ELSE /\ transcriptionId' = id
             /\ waitForCompletion' = wait
             /\ outputMode' = outputMode
             /\ IF ~wait
                THEN /\ Goto("get_status")
                     /\ UNCHANGED <<pollIntervalSec, maxWaitSec>>
                ELSE /\ pollIntervalSec' \in PollIntervalSecs
                     /\ maxWaitSec' \in MaxWaitSecs
                     /\ Goto("poll_begin")
    /\ UNCHANGED <<hostVars, envVars, operation, audioSource, model, audioUrl, fileId,
                   body, autoDelete, pollStart, timeoutAt, pollDelay, statusResponse,
                   result, pollError, delVars>>

\* a getResults that reports a failed job like a running one
AfterStatusNoThrow(status) ==
    IF status = STATUS_COMPLETED THEN "fetch" ELSE "emit"

\* getResults without wait, what follows the status: the transcript is
\* fetched, the job's failure is thrown, or the status object is emitted
AfterStatus(status) ==
    IF status = STATUS_COMPLETED THEN "fetch"
    ELSE IF status = STATUS_ERROR THEN "throw"
    ELSE "emit"

\* getResults without wait: the status request returned or failed
GetStatusReturns ==
    /\ Returned("get_status")
    /\ \/ \E failure \in HttpFailures :
            /\ Fails
            /\ Catch(sonioxApiRequestError(failure))
            /\ UNCHANGED statusResponse
       \/ \E response \in StatusResponses :
            /\ failed' = failed
            /\ statusResponse' = response
            /\ IF AfterStatus(Get(response, "status")) = "fetch"
               THEN Goto("get_transcript")
               ELSE IF AfterStatus(Get(response, "status")) = "throw"
               THEN Catch(JobFailedError(response))
               ELSE Push(redactWebhookAuthHeaderValue(response))
    /\ UNCHANGED <<hostVars, aborted, now, sent, sleeps, itemVars, pollIntervalSec,
                   maxWaitSec, pollStart, timeoutAt, pollDelay, result, pollError, delVars>>

\* getResults without wait: the transcript request returned or failed
GetTranscriptReturns ==
    /\ Returned("get_transcript")
    /\ \/ \E failure \in HttpFailures :
            /\ Fails
            /\ Catch(sonioxApiRequestError(failure))
            /\ UNCHANGED outputMode
       \/ \E transcript \in Transcripts, mode \in OutputModes :
            /\ failed' = failed
            /\ outputMode' = mode
            /\ Push(ShapeOutput(mode, transcript))
    /\ UNCHANGED <<hostVars, aborted, now, sent, sleeps, operation, audioSource, model,
                   audioUrl, fileId, body, transcriptionId, waitForCompletion, autoDelete,
                   pollVars, delVars>>

\* getResults with wait: pollForCompletion returned or threw
GetResultsAfterPoll ==
    /\ pc = "poll_return"
    /\ ~CleansUpAfterPoll(operation)
    /\ IF pollError # NoError
       THEN /\ Catch(pollError)
            /\ UNCHANGED outputMode
       ELSE \E mode \in OutputModes :
            /\ outputMode' = mode
            /\ Push(ShapeOutput(mode, result.transcript))
    /\ LeavePoll
    /\ UNCHANGED <<hostVars, aborted, inFlight, sent, failed, sleeps, operation, audioSource,
                   model, audioUrl, fileId, body, transcriptionId, waitForCompletion,
                   autoDelete, result, pollError, delVars>>

\* ------------------------------------------------------ execute: delete
\* GET /v1/transcriptions/{id}, as the delete operation reads it
LookupResponses ==
    { [id |-> "tr-1"],
      [id |-> "tr-1", file_id |-> ""],
      [id |-> "tr-1", file_id |-> " "],
      [id |-> "tr-1", file_id |-> "file-1"] }

\* delete: the transcription id is read
DeleteParams ==
    /\ pc = "delete"
    /\ \E id \in IdStrs :
        IF ~isNonEmptyString(id)
        THEN /\ Catch(NodeOperationError(<<"Transcription ID is required">>))
             /\ UNCHANGED delTranscriptionId
        ELSE /\ delTranscriptionId' = id
             /\ Goto("delete_lookup")
    /\ UNCHANGED <<hostVars, envVars, itemVars, pollVars, delFileId, deleteResult,
                   transcriptionDetails>>

\* a file id taken from the lookup as it came
FileIdAsSent(details) == Get(details, "file_id")

\* isNonEmptyString(fileIdToDelete) ? fileIdToDelete : undefined, with
\* fileIdToDelete = transcriptionDetails?.file_id
FileIdOf(details) ==
    IF isNonEmptyString(Get(details, "file_id")) THEN details.file_id ELSE Undefined

\* delete: the lookup of the transcription's file returned or failed
DeleteLookupReturns ==
    /\ Returned("delete_lookup")
    /\ \/ \E failure \in HttpFailures :
            /\ Fails
            /\ transcriptionDetails' = transcriptionDetails
            /\ delFileId' = Undefined
       \/ \E response \in LookupResponses :
            /\ failed' = failed
            /\ transcriptionDetails' = response
            /\ delFileId' = FileIdOf(response)
    /\ Goto("del_begin")
    /\ UNCHANGED <<hostVars, aborted, now, sent, sleeps, itemVars, pollVars,
                   delTranscriptionId, deleteResult>>

\* delete: deleteResources returned; the outcome is pushed
DeleteFinish ==
    /\ pc = "del_return"
    /\ operation = "delete"
    /\ Push([success |-> Len(deleteResult.warnings) = 0,
             deleted |-> deleteResult.deleted,
             warnings |-> IF Len(deleteResult.warnings) > 0
                          THEN deleteResult.warnings ELSE Undefined])
    /\ UNCHANGED <<hostVars, envVars, itemVars, pollVars, delVars>>

\* ------------------------------------------------------ specification
Next ==
    \/ Abort
    \/ IssueRequest
    \/ BeginItem
    \/ Return
    \/ CreateSource
    \/ UploadReturns
    \/ CreateBody
    \/ CreateReturns
    \/ PollBegin
    \/ StatusReturns
    \/ PollExamine
    \/ SleepElapses
    \/ SleepAborted
    \/ TranscriptReturns
    \/ DeleteResourcesBegin
    \/ DeleteTranscriptionReturns
    \/ DeleteFileReturns
    \/ CreateAfterPoll
    \/ CreateCleanupReturns
    \/ CreateFinish
    \/ GetResultsParams
    \/ GetStatusReturns
    \/ GetTranscriptReturns
    \/ GetResultsAfterPoll
    \/ DeleteParams
    \/ DeleteLookupReturns
    \/ DeleteFinish

Spec == Init /\ [][Next]_vars

\* ------------------------------------------------------ functions on their own
\* the variables of Soniox.execute, which a function applied on its own leaves alone
executeVars == <<continueOnFail, nItems, envVars, ctlVars, itemVars, pollVars, delVars>>

\* the arguments CreateRequest is applied to: a model, one audio source, and
\* the parameters
CreateArgs ==
    [model : {"stt-async-v3"},
     source : {[audioUrl |-> "src-1", fileId |-> Undefined],
               [audioUrl |-> Undefined, fileId |-> "file-1"]},
     params : CreateParams]

\* a normalization that only drops the codes that are empty, white space kept
normalizeLanguageHintsUntrimmed(input) ==
    IF input.kind # "array"
    THEN <<>>
    ELSE LET codes == [i \in DOMAIN input.languages |-> Get(input.languages[i], "code")]
             kept(code) == code \notin {Undefined, ""}
         IN  SelectSeq(codes, kept)

\* normalizeLanguageHints: languages.map((entry) => entry.code).filter(isNonEmptyString)
normalizeLanguageHints(input) ==
    IF input.kind = "undefined"
    THEN <<>>
    ELSE IF input.kind # "array"
    THEN <<>>
    ELSE LET codes == [i \in DOMAIN input.languages |-> Get(input.languages[i], "code")]
         IN  SelectSeq(codes, isNonEmptyString)

\* the places of a failure extractErrorDetails reads a message from, in the
\* order it reads them
MessageSources ==
    <<"cause.error.detail", "cause.error.message", "response.body.detail",
      "response.body.message", "response.body.error", "description", "message">>

\* the shape of a failure: each place absent, empty or holding a text, and the
\* two places of the status code absent or holding one
FailureShapes ==
    [texts : [DOMAIN MessageSources -> {"absent", "empty", "text"}],
     httpCode : {"absent", "500"}, statusCode : {"absent", "404"}]

\* the text held at a place: the name of the place
TextAt(shape, i) ==
    IF shape.texts[i] = "text" THEN MessageSources[i]
    ELSE IF shape.texts[i] = "empty" THEN "" ELSE Undefined

\* an object with key k, or the empty object when the value is absent
Field(k, v) == IF v \in {Undefined, "absent"} THEN EmptyObject ELSE k :> v

\* an object with key k holding object o, or the empty object when o is empty
Nested(k, o) == IF DOMAIN o = {} THEN EmptyObject ELSE k :> o

\* the error httpRequestWithAuthentication throws, built from its shape
Failure(shape) ==
    LET causeErr == Field("detail", TextAt(shape, 1)) @@ Field("message", TextAt(shape, 2))
        rbody    == Field("detail", TextAt(shape, 3)) @@ Field("message", TextAt(shape, 4))
                    @@ Field("error", TextAt(shape, 5))
        response == Nested("body", rbody) @@ Field("statusCode", shape.statusCode)
    IN  Nested("cause", Nested("error", causeErr))
        @@ Nested("response", response)
        @@ Field("description", TextAt(shape, 6))
        @@ Field("message", TextAt(shape, 7))
        @@ Field("httpCode", shape.httpCode)

\* the entries of the languages list: a code, possibly blank or padded, or none
HintEntries ==
    { [code |-> "en"], [code |-> " en "], [code |-> ""], [code |-> " "], [name |-> "English"] }

HintLists == UNION {[1..n -> HintEntries] : n \in 0..MaxHints}

\* the languageHints parameter: missing, an object without languages, an object
\* whose languages is not an array, or an object with a list of entries
LanguageHintsInputs ==
    { [kind |-> k, languages |-> <<>>] : k \in {"undefined", "noLanguages", "notArray"} }
    \cup { [kind |-> "array", languages |-> l] : l \in HintLists }

\* the objects redactWebhookAuthHeaderValue is applied to: the sensitive key
\* absent, empty, set or already replaced, next to any of three other fields
RedactInputs ==
    { Field("webhook_auth_header_value", secret) @@ [k \in others |-> "value of " \o k] :
        secret \in {"absent", "", "secret", REDACTED},
        others \in SUBSET {"id", "status", "text"} }

\* ------------------------------------------------------ SonioxApi.test
\* test.rules of the credential type
TestRules ==
    << [type |-> "responseCode", value |-> 404,
        message |-> "Authentication failed. Verify your Soniox API key."] >>

\* the status codes the service answers GET /v1/transcriptions/credential-test with
ResponseCodes == {200, 204, 400, 401, 403, 404, 429, 500}

Is2xx(code) == code >= 200 /\ code <= 299

\* The outcome of the credential test for a response code.  The host checks
\* the responseCode rules in order against a failure response: a rule whose
\* value is the response's code makes the test fail with the rule's message;
\* without such a rule every response outside 2xx fails the test
CredentialTest(code) ==
    LET matching == {i \in DOMAIN TestRules :
                        TestRules[i].type = "responseCode" /\ TestRules[i].value = code}
    IN  IF ~Is2xx(code) /\ matching # {}
        THEN [status |-> "Error",
              message |-> TestRules[CHOOSE i \in matching : \A j \in matching : i <= j].message]
        ELSE IF ~Is2xx(code)
        THEN [status |-> "Error", message |-> "Received HTTP status code"]
        ELSE [status |-> "OK", message |-> "Connection successful!"]

\* the functions applied on their own
FnCalls ==
    {"CreateRequest", "normalizeLanguageHints", "sonioxApiRequest",
     "redactWebhookAuthHeaderValue", "SonioxApi.test"}

InitFn ==
    /\ continueOnFail = FALSE
    /\ nItems = 1
    /\ InitExecute
    /\ fnPc = "call"
    /\ fnCall \in FnCalls
    /\ createIn \in (IF fnCall = "CreateRequest" THEN CreateArgs ELSE {NoCall})
    /\ createOut = NoCall
    /\ hintsIn \in (IF fnCall = "normalizeLanguageHints" THEN LanguageHintsInputs ELSE {NoCall})
    /\ hintsOut = <<>>
    /\ failureIn \in (IF fnCall = "sonioxApiRequest" THEN FailureShapes ELSE {NoCall})
    /\ apiErrorOut = NoError
    /\ redactIn \in (IF fnCall = "redactWebhookAuthHeaderValue" THEN RedactInputs ELSE {NoCall})
    /\ redactOut = NoCall
    /\ responseCode \in (IF fnCall = "SonioxApi.test" THEN ResponseCodes ELSE {0})
    /\ testOut = NoCall

\* the parameters of a create item are validated and its body is built
CallCreateRequest ==
    /\ fnPc = "call"
    /\ fnCall = "CreateRequest"
    /\ createOut' = CreateRequest(createIn.model, createIn.source.audioUrl,
                                  createIn.source.fileId, createIn.params)
    /\ fnPc' = "return"
    /\ UNCHANGED <<executeVars, fnCall, createIn, hintsIn, hintsOut, failureIn, apiErrorOut, redactIn, redactOut, responseCode, testOut>>

\* the language hints of a create item are normalized
CallNormalizeLanguageHints ==
    /\ fnPc = "call"
    /\ fnCall = "normalizeLanguageHints"
    /\ hintsOut' = normalizeLanguageHints(hintsIn)
    /\ fnPc' = "return"
    /\ UNCHANGED <<executeVars, fnCall, createIn, createOut, hintsIn, failureIn, apiErrorOut, redactIn, redactOut, responseCode, testOut>>

\* a request made through sonioxApiRequest fails: the error it raises
CallSonioxApiRequest ==
    /\ fnPc = "call"
    /\ fnCall = "sonioxApiRequest"
    /\ apiErrorOut' = sonioxApiRequestError(Failure(failureIn))
    /\ fnPc' = "return"
    /\ UNCHANGED <<executeVars, fnCall, createIn, createOut, hintsIn, hintsOut, failureIn, redactIn, redactOut, responseCode, testOut>>

\* an object is redacted
CallRedact ==
    /\ fnPc = "call"
    /\ fnCall = "redactWebhookAuthHeaderValue"
    /\ redactOut' = redactWebhookAuthHeaderValue(redactIn)
    /\ fnPc' = "return"
    /\ UNCHANGED <<executeVars, fnCall, createIn, createOut, hintsIn, hintsOut, failureIn,
                   apiErrorOut, redactIn, responseCode, testOut>>

\* the credential test is run and the service answers with responseCode
CallCredentialTest ==
    /\ fnPc = "call"
    /\ fnCall = "SonioxApi.test"
    /\ testOut' = CredentialTest(responseCode)
    /\ fnPc' = "return"
    /\ UNCHANGED <<executeVars, fnCall, createIn, createOut, hintsIn, hintsOut, failureIn,
                   apiErrorOut, redactIn, redactOut, responseCode>>

NextFn ==
    \/ CallCreateRequest
    \/ CallNormalizeLanguageHints
    \/ CallSonioxApiRequest
    \/ CallRedact
    \/ CallCredentialTest

SpecFn == InitFn /\ [][NextFn]_vars

\* ------------------------------------------------------ pollForCompletion on its own
\* the poll intervals and max-waits pollForCompletion is called with: negative,
\* zero, below one second, and whole seconds
PollIntervalArgs == PollIntervalSecs
MaxWaitArgs == {-1000, 500} \cup MaxWaitSecs

\* getResults with wait has read its parameters and calls pollForCompletion
InitPoll ==
    /\ continueOnFail = FALSE
    /\ nItems = 1
    /\ FnIdle
    /\ aborted = FALSE
    /\ now = 0
    /\ inFlight = "none"
    /\ sent = [k \in ReqKinds |-> 0]
    /\ failed = [k \in ReqKinds |-> 0]
    /\ sleeps = 0
    /\ pc = "poll_begin"
    /\ itemIndex = 0
    /\ returnData = <<>>
    /\ thrown = NoError
    /\ operation = "getResults"
    /\ audioSource = Undefined
    /\ model = Undefined
    /\ audioUrl = Undefined
    /\ fileId = Undefined
    /\ body = [none |-> ""]
    /\ transcriptionId = "tr-1"
    /\ waitForCompletion = TRUE
    /\ autoDelete = FALSE
    /\ outputMode = Undefined
    /\ pollIntervalSec \in PollIntervalArgs
    /\ maxWaitSec \in MaxWaitArgs
    /\ pollStart = 0
    /\ timeoutAt = 0
    /\ pollDelay = 0
    /\ statusResponse = NoResponse
    /\ result = NoResult
    /\ pollError = NoError
    /\ delTranscriptionId = Undefined
    /\ delFileId = Undefined
    /\ deleteResult = NoDeleteResult
    /\ transcriptionDetails = NoResponse

\* the steps of pollForCompletion, up to its return or throw
NextPoll ==
    \/ Abort
    \/ IssueRequest
    \/ PollBegin
    \/ StatusReturns
    \/ PollExamine
    \/ SleepElapses
    \/ SleepAborted
    \/ TranscriptReturns

\* every request returns and every sleep ends: a step that can be taken is taken
SpecPoll == InitPoll /\ [][NextPoll]_vars /\ WF_vars(NextPoll)

\* ------------------------------------------------------ deleteResources on its own
\* the ids deleteResources is called with: missing, empty, or an id
TranscriptionIdArgs == {Undefined, "", "tr-1", "tr-2"}
FileIdArgs == {Undefined, "", "file-1", "file-2"}

\* the delete operation calls deleteResources(transcriptionId, fileId)
InitDelete ==
    /\ continueOnFail = FALSE
    /\ nItems = 1
    /\ FnIdle
    /\ aborted = FALSE
    /\ now = 0
    /\ inFlight = "none"
    /\ sent = [k \in ReqKinds |-> 0]
    /\ failed = [k \in ReqKinds |-> 0]
    /\ sleeps = 0
    /\ pc = "del_begin"
    /\ itemIndex = 0
    /\ returnData = <<>>
    /\ thrown = NoError
    /\ operation = "delete"
    /\ audioSource = Undefined
    /\ model = Undefined
    /\ audioUrl = Undefined
    /\ fileId = Undefined
    /\ body = [none |-> ""]
    /\ transcriptionId = Undefined
    /\ waitForCompletion = FALSE
    /\ autoDelete = FALSE
    /\ outputMode = Undefined
    /\ pollIntervalSec = 0
    /\ maxWaitSec = 0
    /\ pollStart = 0
    /\ timeoutAt = 0
    /\ pollDelay = 0
    /\ statusResponse = NoResponse
    /\ result = NoResult
    /\ pollError = NoError
    /\ delTranscriptionId \in TranscriptionIdArgs
    /\ delFileId \in FileIdArgs
    /\ deleteResult = NoDeleteResult
    /\ transcriptionDetails = NoResponse

\* the steps of deleteResources, up to its return
NextDelete ==
    \/ IssueRequest
    \/ DeleteResourcesBegin
    \/ DeleteTranscriptionReturns
    \/ DeleteFileReturns

SpecDelete == InitDelete /\ [][NextDelete]_vars

\* ------------------------------------------------------ properties
\* pollForCompletion is running, or has just returned to its caller
InPoll == pc \in {"poll_status", "poll_examine", "poll_sleep", "poll_transcript", "poll_return"}

\* deleteResources is running, or has just returned to its caller
InCleanup == pc \in {"del_begin", "del_transcription", "del_file", "del_return"}

\* the status the last status check returned
LastStatus == Get(statusResponse, "status")

\* max(1, seconds), in thousandths
AtLeastOneSec(sec) == IF sec < MinSec * MsPerSec THEN MinSec * MsPerSec ELSE sec

\* whether the poll was cancelled in its wait
Cancelled == pollError.name = "ExecutionCancelledError"

\* the item that has just ended was a create with wait
CreateWithWaitEnded ==
    /\ pc \in {"loop", "thrown", "done"}
    /\ operation = "create"
    /\ waitForCompletion

\* C1: while the poll runs there is one status request per iteration and one
\* sleep between two consecutive status requests; the transcript is requested
\* once, and only after a status check returned "completed"; and a poll whose
\* last check returned "completed" returns that status response with the
\* transcript, raising neither a timeout nor a job failure (whatever the clock
\* says), and no error at all when the transcript request succeeds.
C1_CompletedPollReturnsTranscript ==
    InPoll =>
        /\ sent.status = sleeps
               + (IF pc = "poll_sleep" \/ (pc = "poll_status" /\ inFlight = "none")
                     \/ (pc = "poll_return" /\ Cancelled)
                  THEN 0 ELSE 1)
        /\ sent.transcript =
               (IF (pc = "poll_transcript" /\ inFlight = "transcript")
                   \/ (pc = "poll_return" /\ LastStatus = STATUS_COMPLETED)
                THEN 1 ELSE 0)
        /\ (pc = "poll_transcript" => LastStatus = STATUS_COMPLETED)
        /\ (pc = "poll_return" /\ LastStatus = STATUS_COMPLETED) =>
               /\ ~IsPollTimeout(pollError)
               /\ ~IsJobFailed(pollError)
               /\ ~Cancelled
               /\ IF failed.transcript = 0
                  THEN /\ pollError = NoError
                       /\ result # NoResult
                       /\ result.status = statusResponse
                       /\ result.transcript \in Transcripts
                  ELSE /\ pollError # NoError
                       /\ result = NoResult
        /\ (pc = "poll_return" /\ result # NoResult) =>
               /\ pollError = NoError
               /\ LastStatus = STATUS_COMPLETED

\* C1 witness: three status checks, two sleeps, one transcript request, and the
\* poll returned the transcript
C1_Witness ==
    /\ pc = "poll_return"
    /\ LastStatus = STATUS_COMPLETED
    /\ sent.status = 3
    /\ sleeps = 2
    /\ sent.transcript = 1
    /\ pollError = NoError
    /\ result # NoResult

\* C2 as stated: a poll that returns after max-wait has elapsed, no status check
\* having returned "completed" or "error" before then, failed with a timeout,
\* never asked for the transcript, and names the last status in its message
\* (max-wait and the poll interval being of one second or more).
C2_Original ==
    (/\ pc = "poll_return"
     /\ maxWaitSec >= MsPerSec
     /\ pollIntervalSec >= MsPerSec
     /\ now > pollStart + maxWaitSec
     /\ failed.status = 0) =>
        /\ IsPollTimeout(pollError)
        /\ sent.transcript = 0
        /\ (Truthy(LastStatus) => Contains(pollError.message, LastStatus))

\* C2 amended: a poll whose last status check returned a status that is neither
\* "completed" nor "error", the clock being past the deadline at that check,
\* failed with a timeout, never asked for the transcript, and names that status
\* in its message; and a timeout is raised in no other case.
C2_TimeoutOnNonTerminalStatus ==
    /\ (/\ pc = "poll_return"
        /\ now > timeoutAt
        /\ failed.status = 0
        /\ LastStatus \notin {STATUS_COMPLETED, STATUS_ERROR}) =>
           /\ IsPollTimeout(pollError)
           /\ sent.transcript = 0
           /\ (Truthy(LastStatus) => Contains(pollError.message, LastStatus))
    /\ (pc = "poll_return" /\ IsPollTimeout(pollError)) =>
           /\ now > timeoutAt
           /\ LastStatus \notin {STATUS_COMPLETED, STATUS_ERROR}
           /\ sent.transcript = 0

\* C2 witness: every check returned "processing" and the poll timed out
C2_Witness ==
    /\ pc = "poll_return"
    /\ IsPollTimeout(pollError)
    /\ LastStatus = "processing"
    /\ Contains(pollError.message, "processing")
    /\ sent.status >= 2
    /\ sent.transcript = 0

\* C3: a poll whose status check returned "error" has ended with a job failure
\* whose message contains the server's error_message when there is one, and from
\* then on, up to the end of the item, no status request, sleep or transcript
\* request is added: the last status request is the one that returned "error".
C3_JobErrorEndsPoll ==
    /\ (pc = "poll_return" /\ LastStatus = STATUS_ERROR) =>
           /\ IsJobFailed(pollError)
           /\ Truthy(Get(statusResponse, "error_message")) =>
                  Contains(pollError.message, statusResponse.error_message)
    /\ IsJobFailed(pollError) =>
           /\ pc \notin {"poll_status", "poll_examine", "poll_sleep", "poll_transcript"}
           /\ sent.status = sleeps + 1
           /\ sent.transcript = 0
           /\ inFlight \notin {"status", "transcript"}
           /\ pc = "poll_return" => LastStatus = STATUS_ERROR

\* C3 witness: the second check returned "error" with "bad audio"
C3_Witness ==
    /\ pc = "poll_return"
    /\ LastStatus = STATUS_ERROR
    /\ Contains(pollError.message, "bad audio")
    /\ sent.status = 2
    /\ sleeps = 1

\* C4 as stated: with requests taking no time, a timeout is raised no later than
\* one poll interval (the one the poller sleeps) after the configured max-wait.
C4_Original ==
    (/\ pc = "poll_return"
     /\ IsPollTimeout(pollError)
     /\ now - pollStart = sleeps * pollDelay) =>
        (now - pollStart) - maxWaitSec <= pollDelay

\* C4 amended: the deadline is the start of the poll plus max(1, max-wait)
\* seconds for as long as the poll runs, and, with requests taking no time, a
\* timeout is raised after that deadline and no later than max(1, poll interval)
\* seconds after it.
C4_DeadlineFixedAndOvershootBounded ==
    InPoll =>
        /\ timeoutAt = pollStart + AtLeastOneSec(maxWaitSec)
        /\ (/\ pc = "poll_return"
            /\ IsPollTimeout(pollError)
            /\ now - pollStart = sleeps * pollDelay) =>
               /\ now - pollStart > AtLeastOneSec(maxWaitSec)
               /\ now - pollStart <= AtLeastOneSec(maxWaitSec) + AtLeastOneSec(pollIntervalSec)

\* C4 witness: max-wait below one second, and the timeout is raised a whole
\* poll interval after the deadline
C4_Witness ==
    /\ pc = "poll_return"
    /\ IsPollTimeout(pollError)
    /\ maxWaitSec = 0
    /\ now - pollStart = sleeps * pollDelay
    /\ now - pollStart = AtLeastOneSec(maxWaitSec) + AtLeastOneSec(pollIntervalSec)

\* C5: the wait between two consecutive status checks lasts max(1, poll
\* interval) seconds, which is at least one second.
C5_SleepAtLeastOneSecond ==
    [][(pc = "poll_sleep" /\ pc' = "poll_status") =>
          /\ now' - now = AtLeastOneSec(pollIntervalSec)
          /\ now' - now >= MsPerSec]_vars

\* C5 witness: a wait has elapsed under a poll interval below one second
C5_Witness ==
    /\ pc = "poll_status"
    /\ sleeps >= 1
    /\ pollIntervalSec < 1000
    /\ now - pollStart >= MsPerSec

\* C6: a poll cancelled in its wait asks for no further status and for no
\* transcript, and the cancellation leaves execute: it is never turned into the
\* output of an item, and the item loop does not go on after it.
C6_CancellationPropagates ==
    /\ (InPoll /\ Cancelled) =>
           /\ pc = "poll_return"
           /\ sent.status = sleeps
           /\ sent.transcript = 0
    /\ Len(returnData) > 0 => Last(returnData).error.name # "ExecutionCancelledError"
    /\ (Cancelled /\ ~InPoll /\ ~InCleanup /\ pc # "create_finish") => pc = "thrown"

\* C7: once the cleanup of create is over, a DELETE for the transcription was
\* issued exactly when auto-delete is enabled, and a DELETE for the file exactly
\* when auto-delete is enabled and the audio was an uploaded binary; and no
\* DELETE is issued before the poll has resolved.
C7_CleanupFollowsEveryResolution ==
    /\ pc = "create_finish" =>
           /\ sent.deleteTranscription = (IF autoDelete THEN 1 ELSE 0)
           /\ sent.deleteFile = (IF autoDelete /\ audioSource = "binary" THEN 1 ELSE 0)
           /\ inFlight = "none"
    /\ (operation = "create" /\ sent.deleteTranscription + sent.deleteFile > 0) =>
           /\ ~InPoll
           /\ pollError # NoError \/ result # NoResult

\* C7 witness: the poll timed out for an uploaded binary, and both DELETEs were
\* issued
C7_Witness ==
    /\ pc = "create_finish"
    /\ autoDelete
    /\ audioSource = "binary"
    /\ IsPollTimeout(pollError)
    /\ sent.deleteTranscription = 1
    /\ sent.deleteFile = 1

\* C8: a create with wait whose poll succeeded ends with a success output
\* whatever the DELETEs did: the output holds the transcript's text (and every
\* other field of the transcript but the secret one, unless only the text is
\* asked for), and its _deleteWarnings has one entry per failed DELETE and is
\* absent when none failed.
C8_DeleteFailureIsAWarning ==
    (CreateWithWaitEnded /\ result # NoResult) =>
        /\ pc # "thrown"
        /\ LET out     == Last(returnData)
               nFailed == failed.deleteTranscription + failed.deleteFile
           IN  /\ out.error = NoError
               /\ out.pairedItem = itemIndex - 1
               /\ "text" \in DOMAIN out.json
               /\ out.json.text = result.transcript.text
               /\ outputMode # "textOnly" =>
                      \A k \in DOMAIN result.transcript \ {"webhook_auth_header_value"} :
                          k \in DOMAIN out.json /\ out.json[k] = result.transcript[k]
               /\ IF nFailed = 0
                  THEN "_deleteWarnings" \notin DOMAIN out.json
                  ELSE /\ "_deleteWarnings" \in DOMAIN out.json
                       /\ Len(out.json["_deleteWarnings"]) = nFailed

\* C8 witness: the poll succeeded, only the transcription's DELETE failed, and
\* the output carries one warning
C8_Witness ==
    /\ CreateWithWaitEnded
    /\ result # NoResult
    /\ autoDelete
    /\ audioSource = "binary"
    /\ failed.deleteTranscription = 1
    /\ failed.deleteFile = 0
    /\ Len(Last(returnData).json["_deleteWarnings"]) = 1

\* C9: a create with wait whose poll failed surfaces the poll's error, as the
\* error thrown out of execute or as the error of the item's output, which then
\* holds the input item and no warning; the cleanup is over by then, whatever
\* its DELETEs did, and while it runs nothing has been surfaced for the item.
C9_PollErrorSurvivesCleanup ==
    /\ (CreateWithWaitEnded /\ pollError # NoError) =>
           /\ sent.deleteTranscription = (IF autoDelete THEN 1 ELSE 0)
           /\ sent.deleteFile = (IF autoDelete /\ audioSource = "binary" THEN 1 ELSE 0)
           /\ inFlight = "none"
           /\ IF pc = "thrown"
              THEN /\ thrown.message = pollError.message
                   /\ pollError.name = "NodeOperationError" => thrown = pollError
              ELSE /\ Last(returnData).error = pollError
                   /\ Last(returnData).json = ItemJson(itemIndex - 1)
    /\ ((InCleanup \/ pc = "create_finish") /\ operation = "create") =>
           /\ thrown = NoError
           /\ Len(returnData) = itemIndex

\* C9 witness: the job failed, both DELETEs failed, and the job failure is what
\* the item's output carries
C9_Witness ==
    /\ CreateWithWaitEnded
    /\ pc = "loop"
    /\ IsJobFailed(pollError)
    /\ failed.deleteTranscription = 1
    /\ failed.deleteFile = 1
    /\ Last(returnData).error = pollError

\* C10: getResults, and create until it is known to wait for completion, issue
\* no DELETE request and never enter the cleanup.
C10_CleanupOnCreateWithWaitOnly ==
    (operation = "getResults" \/ (operation = "create" /\ ~waitForCompletion)) =>
        /\ sent.deleteTranscription = 0
        /\ sent.deleteFile = 0
        /\ ~InCleanup
        /\ pc # "create_finish"

\* C10 witness: a getResults with wait has returned its transcript
C10_Witness ==
    /\ operation = "getResults"
    /\ waitForCompletion
    /\ pc = "loop"
    /\ result # NoResult
    /\ Len(returnData) = itemIndex
    /\ Last(returnData).error = NoError

\* the state of the outputs at any time: one entry per item that has ended,
\* paired with it, in order
OutputsInOrder ==
    /\ Len(returnData) = itemIndex
    /\ \A i \in DOMAIN returnData : returnData[i].pairedItem = i - 1

\* C11: when the host continues on failure, execute never throws and a failed
\* item's output carries the error and the item's own JSON, paired with it, the
\* loop going on with the next item; when it does not, no output ever carries an
\* error, and once an item has failed execute has thrown that failure with no
\* request in flight and takes no further step: no later item is begun, no
\* request issued, nothing returned.
C11_FailurePerItemOrBatchAborted ==
    /\ [](/\ OutputsInOrder
          /\ IF continueOnFail
             THEN /\ pc # "thrown"
                  /\ thrown = NoError
                  /\ (/\ pc \in {"loop", "done"}
                      /\ Len(returnData) > 0
                      /\ Last(returnData).error # NoError) =>
                         Last(returnData).json = ItemJson(itemIndex - 1)
             ELSE /\ \A i \in DOMAIN returnData : returnData[i].error = NoError
                  /\ pc = "thrown" <=> thrown # NoError
                  /\ pc = "thrown" =>
                         /\ thrown.name = "NodeOperationError"
                         /\ inFlight = "none"
                         /\ itemIndex < nItems)
    /\ [][pc = "thrown" => UNCHANGED vars]_vars

\* C11 witness: with the host continuing on failure, the first item failed and
\* the second one was processed, requests and all, and execute returned both
C11_Witness ==
    /\ continueOnFail
    /\ pc = "done"
    /\ Len(returnData) = 2
    /\ returnData[1].error # NoError
    /\ returnData[2].error = NoError
    /\ sent.create = 1

\* a request of kind k is issued by the step
Issued(k) == sent'[k] = sent[k] + 1

\* C12: the request in flight, if any, is the one of the step the current item
\* is at, and none is in flight between two items or once execute is over; a
\* request is issued only when none is in flight, one at a time; and an item
\* ends, and the next begins, with no request in flight.
C12_OneRequestInFlight ==
    /\ [](/\ inFlight # "none" => RequestAt(pc) = inFlight
          /\ pc \in {"loop", "done", "thrown"} => inFlight = "none")
    /\ [][/\ \A k \in ReqKinds :
                Issued(k) =>
                    /\ inFlight = "none"
                    /\ inFlight' = k
                    /\ \A j \in ReqKinds \ {k} : sent'[j] = sent[j]
                    /\ itemIndex' = itemIndex
          /\ (itemIndex' # itemIndex \/ pc = "loop") => inFlight' = "none"]_vars

\* C12 witness: the first item has ended with an output and a request of the
\* second item is in flight
C12_Witness ==
    /\ itemIndex = 1
    /\ Len(returnData) = 1
    /\ returnData[1].error = NoError
    /\ inFlight = "deleteFile"

\* the messages of the errors create throws for a parameter it rejects
ValidationMessages ==
    { "Model is required", "Audio URL is required", "File ID is required",
      "Unsupported audio source: ",
      "Provide exactly one audio source (audio URL or file ID)",
      "Invalid context: ",
      "Target language is required for one-way translation",
      "Language A and Language B are required for two-way translation" }

IsValidationError(error) ==
    /\ error.name = "NodeOperationError"
    /\ Len(error.message) > 0
    /\ error.message[1] \in ValidationMessages

\* the error of the item that has just ended, thrown or attached to its output
SurfacedError ==
    IF pc = "thrown" THEN thrown
    ELSE IF pc \in {"loop", "done"} /\ Len(returnData) > 0 THEN Last(returnData).error
    ELSE NoError

\* C13: a create item that has ended with a validation error has issued no
\* remote request at all, upload included.
C13_ValidationFailsFast ==
    (operation = "create" /\ IsValidationError(SurfacedError)) =>
        \A k \in ReqKinds : sent[k] = 0

\* C14: the body of a create call holds exactly one of audio_url and file_id:
\* the audio URL for the url source, the file id for the fileId and binary
\* sources; a create call is only ever made with exactly one of the two set;
\* and a create item whose parameters give neither fails with a validation error.
C14_ExactlyOneAudioSource ==
    /\ pc = "create_call" =>
           LET hasUrl  == "audio_url" \in DOMAIN body
               hasFile == "file_id" \in DOMAIN body
           IN  /\ hasUrl # hasFile
               /\ audioSource \in {"url", "fileId", "binary"}
               /\ audioSource = "url" =>
                      hasUrl /\ body.audio_url = audioUrl /\ isNonEmptyString(audioUrl)
               /\ audioSource # "url" =>
                      hasFile /\ body.file_id = fileId /\ Truthy(fileId)
    /\ (operation = "create" /\ sent.create > 0) => ~NotExactlyOneSource(audioUrl, fileId)
    /\ (/\ operation = "create"
        /\ pc \in {"loop", "thrown", "done"}
        /\ audioSource \in {"url", "fileId", "other"}
        /\ NotExactlyOneSource(audioUrl, fileId)) =>
           /\ IsValidationError(SurfacedError)
           /\ sent.create = 0

\* C14 witness: the create call of an uploaded binary is in flight with the
\* file id, and no audio URL, in its body
C14_Witness ==
    /\ pc = "create_call"
    /\ inFlight = "create"
    /\ audioSource = "binary"
    /\ body.file_id = "file-1"
    /\ "audio_url" \notin DOMAIN body

\* a text that is empty or made of white space only
Blank(s) == s \in {"", " "}

\* CreateRequest has been applied to createIn and has returned createOut
CreateRequestReturned == fnCall = "CreateRequest" /\ fnPc = "return"

\* the one error that may come before that of the translation: the context's
ContextRejected == createOut.threw /\ createOut.error.message[1] = "Invalid context: "

\* C15: for every choice of the parameters of create, one_way with a blank
\* target language is rejected with a validation error, and with a target
\* language the body has translation = {type: one_way, target_language};
\* two_way with a blank language A or B is rejected, and with both the body has
\* translation = {type: two_way, language_a, language_b}; none leaves the body
\* without a translation field.  (The only other outcome is the rejection of
\* the context, which is validated first.)
C15_TranslationValidatedAndBuilt ==
    CreateRequestReturned =>
        LET p == createIn.params
            rejected(message) ==
                /\ createOut.threw
                /\ IsValidationError(createOut.error)
                /\ ContextRejected \/ createOut.error.message = <<message>>
            built(translation) ==
                /\ ContextRejected \/ ~createOut.threw
                /\ ~createOut.threw =>
                       /\ "translation" \in DOMAIN createOut.body
                       /\ createOut.body.translation = translation
        IN  CASE p.translationType = "one_way" ->
                  IF Blank(p.targetLanguage)
                  THEN rejected("Target language is required for one-way translation")
                  ELSE built([type |-> "one_way", target_language |-> p.targetLanguage])
              [] p.translationType = "two_way" ->
                  IF Blank(p.languageA) \/ Blank(p.languageB)
                  THEN rejected("Language A and Language B are required for two-way translation")
                  ELSE built([type |-> "two_way", language_a |-> p.languageA,
                              language_b |-> p.languageB])
              [] OTHER ->
                  /\ ContextRejected \/ ~createOut.threw
                  /\ ~createOut.threw => "translation" \notin DOMAIN createOut.body

\* C15 witness: two_way with both languages has given a body with the two-way
\* translation
C15_Witness ==
    /\ CreateRequestReturned
    /\ createIn.params.translationType = "two_way"
    /\ ~createOut.threw
    /\ createOut.body.translation = [type |-> "two_way", language_a |-> "en", language_b |-> "es"]

\* normalizeLanguageHints has been applied to hintsIn and has returned hintsOut
HintsReturned == fnCall = "normalizeLanguageHints" /\ fnPc = "return"

\* the entries of a list that have a code that is not blank
KeptHint(entry) == "code" \in DOMAIN entry /\ ~Blank(entry.code)

\* C16: for every language-hint input, the hints returned are the codes of the
\* entries whose code is a string that is not blank, one for one and in the
\* order of the list (the j-th hint is the code, as entered, of the j-th such
\* entry), and an input with no list of entries gives no hint.
C16_HintsFilteredInOrder ==
    HintsReturned =>
        IF hintsIn.kind # "array"
        THEN hintsOut = <<>>
        ELSE LET l == hintsIn.languages
                 rank(i) == Cardinality({k \in 1..i : KeptHint(l[k])})
             IN  /\ Len(hintsOut) = rank(Len(l))
                 /\ \A i \in DOMAIN l :
                        KeptHint(l[i]) => hintsOut[rank(i)] = l[i].code

\* C16 witness: of three entries the blank one is dropped and the other two
\* are kept in their order
C16_Witness ==
    /\ HintsReturned
    /\ hintsIn.kind = "array"
    /\ hintsIn.languages = <<[code |-> " en "], [code |-> " "], [code |-> "en"]>>
    /\ hintsOut = <<" en ", "en">>

\* the message of parseStructuredContext for a JSON text that is no object
MustBeObject == "Context must be a JSON object, not an array or primitive"

\* C17: in structured context mode, a context text that parses to an array or
\* to a primitive is rejected, whatever the other parameters, with a validation
\* error that says the context must be an object, and no body is built for a
\* create call; a text that is not JSON is rejected with another message; and a
\* text that parses to a non-empty object is, unless the translation is
\* rejected, sent as the context of the body.
C17_StructuredContextMustBeObject ==
    (CreateRequestReturned /\ createIn.params.contextMode = "structured") =>
        LET name == createIn.params.contextJson
        IN  /\ name \in {"arrayText", "numberText"} =>
                   /\ createOut.threw
                   /\ IsValidationError(createOut.error)
                   /\ createOut.error.message = <<"Invalid context: ", MustBeObject>>
                   /\ createOut.body = [none |-> ""]
            /\ name = "badText" =>
                   /\ ContextRejected
                   /\ ~Contains(createOut.error.message, MustBeObject)
            /\ name = "objectText" =>
                   /\ ~ContextRejected
                   /\ ~createOut.threw =>
                          /\ "context" \in DOMAIN createOut.body
                          /\ createOut.body.context = [general |-> "x"]

\* C17 witness: the text "[1,2,3]" has been rejected as not being an object
C17_Witness ==
    /\ CreateRequestReturned
    /\ createIn.params.contextMode = "structured"
    /\ createIn.params.contextJson = "arrayText"
    /\ createOut.threw
    /\ Contains(createOut.error.message, MustBeObject)

\* sonioxApiRequest has been applied to a failing request and has raised apiErrorOut
ApiRequestFailed == fnCall = "sonioxApiRequest" /\ fnPc = "return"

\* the places of the failure that hold a text
Filled == {i \in DOMAIN MessageSources : failureIn.texts[i] = "text"}

\* C18: for every shape of failure, sonioxApiRequest raises a NodeOperationError
\* that reads "Soniox API error: " followed by the text of the first place, in
\* the order cause detail, cause message, body detail, body message, body
\* error, description, message, that holds a non-empty text; only when no place
\* holds one does it read "Soniox API error (HTTP <code>)", the code being the
\* failure's httpCode or else the response's statusCode, and with no code
\* either it is the bare "Soniox API error".
C18_FirstMessageByPriority ==
    ApiRequestFailed =>
        /\ apiErrorOut.name = "NodeOperationError"
        /\ IF Filled # {}
           THEN LET first == CHOOSE i \in Filled : \A j \in Filled : i <= j
                IN  apiErrorOut.message = <<"Soniox API error: ", MessageSources[first]>>
           ELSE IF failureIn.httpCode # "absent"
           THEN apiErrorOut.message = <<"Soniox API error (HTTP ", failureIn.httpCode, ")">>
           ELSE IF failureIn.statusCode # "absent"
           THEN apiErrorOut.message = <<"Soniox API error (HTTP ", failureIn.statusCode, ")">>
           ELSE apiErrorOut.message = <<"Soniox API error">>

\* C18 witness: the cause's detail is empty, its message absent, and the
\* body's detail wins over the body's message and the top-level message
C18_Witness ==
    /\ ApiRequestFailed
    /\ failureIn.texts[1] = "empty"
    /\ failureIn.texts[2] = "absent"
    /\ failureIn.texts[3] = "text"
    /\ failureIn.texts[4] = "text"
    /\ failureIn.texts[7] = "text"
    /\ failureIn.httpCode = "500"
    /\ apiErrorOut.message = <<"Soniox API error: ", "response.body.detail">>

\* the requests an item makes once at most
OneShotRequests == {"upload", "create", "transcript", "deleteTranscription", "deleteFile"}

\* C19: within an item every upload, create, transcript and delete request is
\* sent at most once; a request of a kind that has failed in the item is never
\* followed by another request of that kind, so a status request that fails in
\* the poll loop is the last of the loop and the poll ends with its error; and a
\* status request is sent again only in the poll loop, after a status response
\* that was neither completed nor error.
C19_NoFailedCallRetried ==
    /\ [](/\ \A k \in OneShotRequests : sent[k] <= 1
          /\ \A k \in ReqKinds : failed[k] <= 1
          /\ (failed.status = 1 /\ pc = "poll_return") => pollError.name = "NodeOperationError")
    /\ [][/\ \A k \in ReqKinds : failed[k] >= 1 => sent'[k] <= sent[k]
          /\ (sent.status >= 1 /\ sent'.status = sent.status + 1) =>
                /\ pc = "poll_status"
                /\ statusResponse # NoResponse
                /\ Get(statusResponse, "status") \notin {STATUS_COMPLETED, STATUS_ERROR}
                /\ failed.status = 0]_vars

\* C19 witness: the third status request of a poll has failed and the poll has
\* ended with its error, no further request having been sent
C19_Witness ==
    /\ pc = "poll_return"
    /\ sent.status = 3
    /\ failed.status = 1
    /\ inFlight = "none"
    /\ pollError.name = "NodeOperationError"
    /\ Contains(pollError.message, "Soniox API error (HTTP ")

\* a message sonioxApiRequest has written
Normalized(message) ==
    \E i \in DOMAIN message :
        message[i] \in {"Soniox API error: ", "Soniox API error (HTTP ", "Soniox API error"}

\* C20: every create, status, transcript and DELETE request in flight was issued
\* through sonioxApiRequest, and the failure of any of them is reported with
\* the message sonioxApiRequest writes: the error a poll ends with after a
\* failed status or transcript request, and every warning of a failed DELETE.
C20_AllCallsThroughSonioxApiRequest ==
    /\ inFlight \in {"create", "status", "transcript", "deleteTranscription", "deleteFile"} =>
           IssuedThrough(inFlight) = "sonioxApiRequest"
    /\ (pc = "poll_return" /\ failed.status + failed.transcript >= 1) =>
           Normalized(pollError.message)
    /\ \A i \in DOMAIN deleteResult.warnings : Normalized(deleteResult.warnings[i])

\* redactWebhookAuthHeaderValue has been applied to redactIn and returned redactOut
Redacted == fnCall = "redactWebhookAuthHeaderValue" /\ fnPc = "return"

\* C21: redactWebhookAuthHeaderValue returns an object with the keys of its
\* input; when the input has the key webhook_auth_header_value, whatever its
\* value, the output holds "[REDACTED]" at that key and the input's value at
\* every other key; when the input lacks the key the output is the input; and
\* applying the function to its output changes nothing.
C21_RedactionReplacesOnlyTheSecret ==
    Redacted =>
        /\ DOMAIN redactOut = DOMAIN redactIn
        /\ \A k \in DOMAIN redactIn :
              redactOut[k] = IF k = "webhook_auth_header_value" THEN REDACTED ELSE redactIn[k]
        /\ "webhook_auth_header_value" \notin DOMAIN redactIn => redactOut = redactIn
        /\ redactWebhookAuthHeaderValue(redactOut) = redactOut

\* C21 witness: an object with the secret and two other fields has been redacted
C21_Witness ==
    /\ Redacted
    /\ DOMAIN redactIn = {"webhook_auth_header_value", "id", "text"}
    /\ redactIn.webhook_auth_header_value = "secret"
    /\ redactOut.webhook_auth_header_value = REDACTED
    /\ redactOut.text = redactIn.text

\* the item that has just ended has emitted a success output
SuccessOutput ==
    /\ pc \in {"loop", "done"}
    /\ Len(returnData) > 0
    /\ Last(returnData).error = NoError

\* C22: the success output of a create or getResults item, whichever response
\* it echoes (the create response, the status of a running job, the
\* transcript, with or without delete warnings), has no field
\* webhook_auth_header_value or has the placeholder there, and none of its
\* fields holds the configured header value.
C22_SecretNeverEchoed ==
    (SuccessOutput /\ operation \in {"create", "getResults"}) =>
        LET json == Last(returnData).json
        IN  /\ Get(json, "webhook_auth_header_value") \in {Undefined, REDACTED}
            /\ \A k \in DOMAIN json \ {"_deleteWarnings"} : json[k] # "secret"

\* C22 witness: getResults without wait has emitted the status object of a
\* running job whose response carried the header value
C22_Witness ==
    /\ SuccessOutput
    /\ operation = "getResults"
    /\ ~waitForCompletion
    /\ Get(Last(returnData).json, "status") = "processing"
    /\ Get(Last(returnData).json, "webhook_auth_header_value") = REDACTED

\* a delete item with a non-empty transcription id, past its lookup
DeleteAfterLookup ==
    /\ operation = "delete"
    /\ sent.status = 1
    /\ inFlight # "status"

\* the lookup of the delete item succeeded and named a file
LookupNamedFile ==
    /\ failed.status = 0
    /\ isNonEmptyString(Get(transcriptionDetails, "file_id"))

\* C23: a delete item with a non-empty transcription id never throws; once it
\* has ended it has emitted an output without error, has sent one DELETE for
\* the transcription whether the lookup failed or not, and has sent one DELETE
\* for the file when the lookup succeeded and returned a file_id that is not
\* blank, and none otherwise; the file it deletes is the one the lookup named;
\* and the output's success is true exactly when no DELETE failed.
C23_DeleteRemovesTranscriptionAndFile ==
    DeleteAfterLookup =>
        /\ pc # "thrown"
        /\ delFileId = IF LookupNamedFile THEN transcriptionDetails.file_id ELSE Undefined
        /\ pc \in {"loop", "done"} =>
              /\ Last(returnData).error = NoError
              /\ sent.deleteTranscription = 1
              /\ sent.deleteFile = IF LookupNamedFile THEN 1 ELSE 0
              /\ Last(returnData).json.success
                    <=> failed.deleteTranscription + failed.deleteFile = 0

\* C23 witness: the lookup failed, the transcription was deleted all the same,
\* no file DELETE was sent, and the item reports success
C23_Witness ==
    /\ DeleteAfterLookup
    /\ pc \in {"loop", "done"}
    /\ failed.status = 1
    /\ sent.deleteTranscription = 1
    /\ sent.deleteFile = 0
    /\ Last(returnData).json.success

\* a getResults item whose transcription id was accepted
GetResultsStarted == operation = "getResults" /\ transcriptionId # Undefined

\* the item has ended: its output was emitted or its failure thrown
ItemEnded == pc \in {"loop", "done", "thrown"}

\* C24: a getResults item without wait never enters the poll loop and never
\* sleeps; when it has ended it has sent exactly one status request and, if
\* that request succeeded: for status "completed" exactly one transcript
\* request, whose transcript is the output; for status "error" no transcript
\* request and the JobFailed error as the item's failure; for every other
\* status, a missing one included, no transcript request and the status object
\* as the output.  With wait the item goes through the poll loop: it never is
\* at the single status or transcript request, and its success output is the
\* transcript the poll returned for a completed job.
C24_GetResultsWithoutWaitIsOneShot ==
    /\ (GetResultsStarted /\ ~waitForCompletion) =>
          /\ ~InPoll /\ pc # "poll_begin"
          /\ sleeps = 0
          /\ sent.status <= 1 /\ sent.transcript <= 1
          /\ ItemEnded =>
                /\ sent.status = 1
                /\ failed.status = 1 => sent.transcript = 0
                /\ failed.status = 0 =>
                      LET status == Get(statusResponse, "status")
                      IN  IF status = STATUS_COMPLETED
                          THEN /\ sent.transcript = 1
                               /\ failed.transcript = 0 =>
                                     /\ SuccessOutput
                                     /\ Last(returnData).json \in
                                           {ShapeOutput(outputMode, t) : t \in Transcripts}
                          ELSE IF status = STATUS_ERROR
                          THEN /\ sent.transcript = 0
                               /\ SurfacedError = JobFailedError(statusResponse)
                          ELSE /\ sent.transcript = 0
                               /\ SuccessOutput
                               /\ Last(returnData).json =
                                     redactWebhookAuthHeaderValue(statusResponse)
    /\ (GetResultsStarted /\ waitForCompletion) =>
          /\ pc \notin {"get_status", "get_transcript"}
          /\ (ItemEnded /\ SuccessOutput) =>
                /\ Get(result.status, "status") = STATUS_COMPLETED
                /\ sent.transcript = 1
                /\ Last(returnData).json = ShapeOutput(outputMode, result.transcript)

\* C24 witness: without wait, the one status request found the job in error
\* and the item has failed with the JobFailed error, no transcript fetched
C24_Witness ==
    /\ GetResultsStarted
    /\ ~waitForCompletion
    /\ ItemEnded
    /\ sent.status = 1
    /\ failed.status = 0
    /\ Get(statusResponse, "status") = STATUS_ERROR
    /\ sent.transcript = 0
    /\ Contains(SurfacedError.message, "Transcription failed with status \"")

\* the credential test has been run
CredentialTested == fnCall = "SonioxApi.test" /\ fnPc = "return"

\* C25: in the credential test a 404 response passes the test, and every other
\* response outside 2xx fails it.
C25_NotFoundProvesAuthentication ==
    CredentialTested =>
        /\ responseCode = 404 => testOut.status = "OK"
        /\ (~Is2xx(responseCode) /\ responseCode # 404) => testOut.status = "Error"

\* pollForCompletion has ended and the deadline had passed when it did
EndedPastDeadline == pc = "poll_return" /\ DeadlinePassed(now, timeoutAt)

\* C26: a poll that ends past its deadline with a last status of "completed"
\* returns the transcript (or the failure of the transcript request), and with
\* a last status of "error" raises the JobFailed error; in neither case a
\* PollTimeout.  A poll that ended with a PollTimeout has a last status check
\* that succeeded and returned neither "completed" nor "error", has passed its
\* deadline and has requested no transcript.
C26_TerminalStatusWinsOverDeadline ==
    /\ (EndedPastDeadline /\ LastStatus = STATUS_COMPLETED) =>
          /\ ~IsPollTimeout(pollError)
          /\ failed.transcript = 0 =>
                /\ pollError = NoError
                /\ result.transcript \in Transcripts
    /\ (EndedPastDeadline /\ LastStatus = STATUS_ERROR) =>
          /\ IsJobFailed(pollError)
          /\ result = NoResult
    /\ (pc = "poll_return" /\ IsPollTimeout(pollError)) =>
          /\ statusResponse # NoResponse
          /\ LastStatus \notin {STATUS_COMPLETED, STATUS_ERROR}
          /\ failed.status = 0
          /\ DeadlinePassed(now, timeoutAt)
          /\ sent.transcript = 0

\* C26 witness: the job failed and the check that reported it returned after
\* the deadline, following a sleep; the poll raised the JobFailed error
C26_Witness ==
    /\ EndedPastDeadline
    /\ LastStatus = STATUS_ERROR
    /\ sleeps >= 1
    /\ IsJobFailed(pollError)

\* max(1, maxWait) and max(1, pollInterval) of the running poll, in thousandths
MaxWaitMs == AtLeastOneSec(maxWaitSec)
PollIntervalMs == AtLeastOneSec(pollIntervalSec)

\* the poll has ended with no request failed and no cancellation
EndedUndisturbed ==
    /\ pc = "poll_return"
    /\ failed.status = 0
    /\ failed.transcript = 0
    /\ ~Cancelled

\* the number of the three outcomes the ended poll is in
Outcomes ==
    (IF pollError = NoError /\ LastStatus = STATUS_COMPLETED /\ result # NoResult THEN 1 ELSE 0)
    + (IF IsJobFailed(pollError) THEN 1 ELSE 0)
    + (IF IsPollTimeout(pollError) THEN 1 ELSE 0)

\* C27 as stated: the poll ends, after at least one status check and in exactly
\* one of completed, error and timed_out, and sends at most
\* ceil(max(1, maxWait) / max(1, pollInterval)) + 1 status requests.
C27_Original ==
    /\ <>(pc = "poll_return")
    /\ [](/\ pc = "poll_return" => sent.status >= 1
          /\ EndedUndisturbed => Outcomes = 1
          /\ sent.status <= ((MaxWaitMs + PollIntervalMs - 1) \div PollIntervalMs) + 1)

\* C27 amended: the poll ends, after at least one status check and in exactly
\* one of completed, error and timed_out, and sends at most
\* floor(max(1, maxWait) / max(1, pollInterval)) + 2 status requests.
C27_PollTerminatesWithinBound ==
    /\ <>(pc = "poll_return")
    /\ [](/\ pc = "poll_return" => sent.status >= 1
          /\ EndedUndisturbed => Outcomes = 1
          /\ sent.status <= (MaxWaitMs \div PollIntervalMs) + 2)

\* C27 witness: max-wait is negative, every status was non-terminal, and the
\* poll timed out after the most status checks the bound allows
C27_Witness ==
    /\ EndedUndisturbed
    /\ maxWaitSec < 0
    /\ IsPollTimeout(pollError)
    /\ sent.status = (MaxWaitMs \div PollIntervalMs) + 2

\* C28: when execute has returned, returnData holds one entry per input item
\* and the k-th entry is paired with the k-th item; and on the way there every
\* step that ends an item appends exactly one entry, paired with that item,
\* and no other step touches returnData, so no item is emitted twice or skipped.
C28_OneResultPerItemInOrder ==
    /\ [](pc = "done" =>
            /\ Len(returnData) = nItems
            /\ \A k \in 1..nItems : returnData[k].pairedItem = k - 1)
    /\ [][IF itemIndex' = itemIndex + 1
          THEN /\ Len(returnData') = Len(returnData) + 1
               /\ Last(returnData').pairedItem = itemIndex
               /\ \A k \in DOMAIN returnData :
                     returnData'[k].pairedItem = returnData[k].pairedItem
          ELSE /\ itemIndex' = itemIndex
               /\ Len(returnData') = Len(returnData)
               /\ \A k \in DOMAIN returnData :
                     returnData'[k].pairedItem = returnData[k].pairedItem]_vars

\* C28 witness: with the host continuing on failure, two items, the first
\* succeeded and the second, a getResults, failed; execute returned both
C28_Witness ==
    /\ continueOnFail
    /\ pc = "done"
    /\ nItems = 2
    /\ Len(returnData) = 2
    /\ returnData[1].error = NoError
    /\ returnData[2].error # NoError
    /\ returnData[2].pairedItem = 1
    /\ operation = "getResults"

\* a DELETE has been sent or the cleanup is running
CleanupReached == InCleanup \/ sent.deleteTranscription + sent.deleteFile >= 1

\* C29: on create the cleanup is reached only after the create call succeeded
\* and returned a transcription id, with wait-for-completion on and the poll
\* entered; and a create item whose binary upload succeeded and which ended
\* before a poll started (a validation error after the upload, a failed create
\* call, a response without id, or no wait) has sent no DELETE at all, whatever
\* auto-delete says: the uploaded file stays on the service.
C29_NoCleanupBeforePoll ==
    operation = "create" =>
        /\ CleanupReached =>
              /\ sent.create = 1
              /\ failed.create = 0
              /\ Truthy(transcriptionId)
              /\ waitForCompletion
              /\ sent.status >= 1
        /\ (/\ ItemEnded
            /\ audioSource = "binary"
            /\ sent.upload = 1
            /\ failed.upload = 0
            /\ sent.status = 0) =>
              /\ sent.deleteFile = 0
              /\ sent.deleteTranscription = 0

\* C29 witness: the binary file was uploaded, the create call failed, and the
\* item has ended without any DELETE
C29_Witness ==
    /\ operation = "create"
    /\ ItemEnded
    /\ audioSource = "binary"
    /\ sent.upload = 1
    /\ failed.upload = 0
    /\ failed.create = 1
    /\ sent.deleteFile = 0

\* 1 for an id deleteResources acts on, 0 for a missing or empty one
Given(id) == IF Truthy(id) THEN 1 ELSE 0

\* C30: deleteResources never throws; it sends the DELETE of the transcription
\* and the DELETE of the file at most once each, the file's only when the
\* transcription's is over; when it has returned it has sent one DELETE for
\* each id given, the file's whether the transcription's failed or not; a
\* resource is in `deleted` exactly when its DELETE was sent and succeeded,
\* each failed DELETE has left one warning, and the entries of `deleted` and
\* the warnings together are as many as the ids given.
C30_EachResourceDeletedOrWarned ==
    /\ pc # "thrown" /\ thrown = NoError
    /\ sent.deleteTranscription <= Given(delTranscriptionId)
    /\ sent.deleteFile <= Given(delFileId)
    /\ sent.deleteFile = 1 =>
          /\ sent.deleteTranscription = Given(delTranscriptionId)
          /\ inFlight # "deleteTranscription"
    /\ pc = "del_return" =>
          /\ inFlight = "none"
          /\ sent.deleteTranscription = Given(delTranscriptionId)
          /\ sent.deleteFile = Given(delFileId)
          /\ "transcription" \in DOMAIN deleteResult.deleted
                <=> (sent.deleteTranscription = 1 /\ failed.deleteTranscription = 0)
          /\ "file" \in DOMAIN deleteResult.deleted
                <=> (sent.deleteFile = 1 /\ failed.deleteFile = 0)
          /\ DOMAIN deleteResult.deleted \subseteq {"transcription", "file"}
          /\ Len(deleteResult.warnings) = failed.deleteTranscription + failed.deleteFile
          /\ Cardinality(DOMAIN deleteResult.deleted) + Len(deleteResult.warnings)
                = Given(delTranscriptionId) + Given(delFileId)

\* C30 witness: both ids given, the DELETE of the transcription failed, the
\* file was deleted all the same: one warning, one deleted entry
C30_Witness ==
    /\ pc = "del_return"
    /\ Truthy(delTranscriptionId)
    /\ Truthy(delFileId)
    /\ failed.deleteTranscription = 1
    /\ failed.deleteFile = 0
    /\ DOMAIN deleteResult.deleted = {"file"}
    /\ Len(deleteResult.warnings) = 1
    /\ Contains(deleteResult.warnings[1], "transcription " \o delTranscriptionId)

====
